---- MODULE Spec2Model ----
(***************************************************************************)
(* Rule engine: expression parser, plain and tracing evaluators, the      *)
(* predicate evaluator, the reason generator and the evaluation service.  *)
(*                                                                         *)
(* Python values are tagged records [t |-> type name, v |-> value]; an    *)
(* exception is a record [type, field, message]; a call that may raise     *)
(* returns an outcome [kind |-> "ok" | "raise", value, exc].               *)
(***************************************************************************)
EXTENDS Integers, Sequences, FiniteSets, TLC

VARIABLES
    tokens,             \* ExpressionParser.tokens: the parser's input
    parse_result,       \* outcome of ExpressionParser(tokens).parse()
    rule,               \* the Rule under evaluation
    payload,            \* the payload mapping (field name -> value)
    ast,                \* outcome of parse_expression(rule.expression)
    plain_result,       \* outcome of evaluate_expression(ast, payload)
    detailed_result,    \* outcome of evaluate_expression_detailed(ast, payload)
    evaluation_result,  \* outcome of EvaluationService._evaluate_rule(rule, payload)
    store,              \* the rules the repository holds, in file order
    rule_ids,           \* the rule_ids of an evaluation request
    response,           \* outcome of EvaluationService.evaluate(payload, rule_ids)
    text,               \* the text given to parse_expression, as its characters
    tokenize_result,    \* outcome of ExpressionTokenizer(text).tokenize()
    parse_expression_result, \* outcome of parse_expression(text)
    file,               \* the rules file of the FileRuleRepository: a list of dicts
    call,               \* the last call: its operation and arguments
    call_result,        \* what the last call returned or raised
    evaluations,        \* the tracing evaluations that run concurrently
    lists,              \* the comparison_results lists allocated so far
    threads             \* the repository calls that run concurrently

textVars == <<text, tokenize_result, parse_expression_result>>
ruleVars == <<file, call, call_result>>
threadVars == <<evaluations, lists, threads>>

vars == <<tokens, parse_result, rule, payload, ast, plain_result,
          detailed_result, evaluation_result, store, rule_ids, response, textVars,
          ruleVars, threadVars>>

(***************************************************************************)
(* Bounds of the model.                                                    *)
(***************************************************************************)
MaxLeaves == 3
MaxPreds == 3
MaxItems == 4
MaxIds == 3
MaxSpaces == 1
MaxRules == 2

(***************************************************************************)
(* Python values and the built-in operations the code applies to them.     *)
(***************************************************************************)
Int_(n) == [t |-> "int", v |-> n]
Str_(s) == [t |-> "str", v |-> s]
Bool_(b) == [t |-> "bool", v |-> b]
List_(s) == [t |-> "list", v |-> s]
None == [t |-> "NoneType", v |-> 0]

\* Optional attributes (Optional[...] = None): <<>> is None, <<x>> is x.
Nothing == <<>>
Some(x) == <<x>>

\* type(v).__name__
TypeName(v) == v.t

IsNum(v) == v.t \in {"int", "bool"}
Num(v) == IF v.t = "bool" THEN (IF v.v THEN 1 ELSE 0) ELSE v.v

\* a == b: never raises; bool is an int; lists compare element by element.
RECURSIVE PyEq(_, _)
PyEq(a, b) ==
    IF IsNum(a) /\ IsNum(b) THEN Num(a) = Num(b)
    ELSE IF a.t # b.t THEN FALSE
    ELSE IF a.t = "list"
         THEN /\ Len(a.v) = Len(b.v)
              /\ \A i \in 1..Len(a.v) : PyEq(a.v[i], b.v[i])
    ELSE a.v = b.v

\* The strings of the model in code point order, and the pieces they are
\* made of (for substring tests).
SortedStrs == <<"", "age", "lim", "tag", "x", "xy", "y", "z">>
StrRank(s) == CHOOSE i \in 1..Len(SortedStrs) : SortedStrs[i] = s
StrPieces == {"", "x", "y", "z"}
IsSubstring(s, u) == \E p, q \in StrPieces : p \o s \o q = u

\* An ordering that ranks values of different types instead of refusing
\* them.
LenientOrder(a, b) ==
    IF IsNum(a) /\ IsNum(b)
    THEN IF Num(a) < Num(b) THEN "lt" ELSE IF Num(a) = Num(b) THEN "eq" ELSE "gt"
    ELSE IF a = b THEN "eq" ELSE "lt"

\* Three-way ordering as the rich comparisons compute it: "lt", "eq", "gt",
\* or "TypeError" when '<' is not supported between the two types.
RECURSIVE PyOrder(_, _)
PyOrder(a, b) ==
    IF IsNum(a) /\ IsNum(b)
    THEN IF Num(a) < Num(b) THEN "lt" ELSE IF Num(a) = Num(b) THEN "eq" ELSE "gt"
    ELSE IF a.t = "str" /\ b.t = "str"
    THEN IF a.v = b.v THEN "eq"
         ELSE IF StrRank(a.v) < StrRank(b.v) THEN "lt" ELSE "gt"
    ELSE IF a.t = "list" /\ b.t = "list"
    THEN LET n == IF Len(a.v) < Len(b.v) THEN Len(a.v) ELSE Len(b.v)
             diff == {i \in 1..n : ~PyEq(a.v[i], b.v[i])}
         IN  IF diff = {}
             THEN IF Len(a.v) < Len(b.v) THEN "lt"
                  ELSE IF Len(a.v) = Len(b.v) THEN "eq" ELSE "gt"
             ELSE LET k == CHOOSE i \in diff : \A j \in diff : i <= j
                  IN  PyOrder(a.v[k], b.v[k])
    ELSE "TypeError"

\* x in c, for c a str or a list. 'x in <str>' raises TypeError unless x is
\* a str; membership in a list never raises.
PyInRaises(x, c) == c.t = "str" /\ x.t # "str"
PyIn(x, c) ==
    IF c.t = "str"
    THEN x.t = "str" /\ IsSubstring(x.v, c.v)
    ELSE \E i \in 1..Len(c.v) : PyEq(x, c.v[i])

(***************************************************************************)
(* Outcomes and exceptions.                                                *)
(***************************************************************************)
NoExc == [type |-> "", field |-> "", message |-> ""]
Ok(v) == [kind |-> "ok", value |-> v, exc |-> NoExc]
Raise(e) == [kind |-> "raise", value |-> FALSE, exc |-> e]

MissingFieldException(f) ==
    [type |-> "MissingFieldException", field |-> f,
     message |-> "Required field '" \o f \o "' is missing from payload"]

TypeMismatchException(f, expected_type, actual_type) ==
    [type |-> "TypeMismatchException", field |-> f,
     message |-> "Type mismatch for field '" \o f \o "': expected "
                 \o expected_type \o ", got " \o actual_type]

EvaluationException(msg) ==
    [type |-> "EvaluationException", field |-> "", message |-> msg]

ValueError(msg) == [type |-> "ValueError", field |-> "", message |-> msg]

\* payload.get(key)
PayloadGet(p, key) == IF key \in DOMAIN p THEN p[key] ELSE None

(***************************************************************************)
(* AST nodes (expression_parser.py).                                       *)
(***************************************************************************)
ComparisonNode(field, operator, value, is_field_comparison) ==
    [kind |-> "ComparisonNode", field |-> field, operator |-> operator,
     value |-> value, is_field_comparison |-> is_field_comparison]

BinaryOpNode(operator, left, right) ==
    [kind |-> "BinaryOpNode", operator |-> operator, left |-> left, right |-> right]

(***************************************************************************)
(* ExpressionEvaluator and DetailedExpressionEvaluator                     *)
(* (expression_evaluator.py). An evaluator object is a record              *)
(* [class, payload, comparison_results]; a method returns                  *)
(* [outcome, self]: what it returns or raises, and the object afterwards.  *)
(***************************************************************************)
ExpressionEvaluator(p) ==
    [class |-> "ExpressionEvaluator", payload |-> p, comparison_results |-> <<>>]

DetailedExpressionEvaluator(p) ==
    [class |-> "DetailedExpressionEvaluator", payload |-> p, comparison_results |-> <<>>]

Result(o, self) == [outcome |-> o, self |-> self]

\* A tracing comparison that compares for equality whatever the operator.
EqualityOnlyComparison(self, node, actual_value) ==
    Ok(PyEq(actual_value,
            IF node.is_field_comparison THEN self.payload[node.value.v] ELSE node.value))

\* DetailedExpressionEvaluator._perform_comparison
_perform_comparison(self, node, actual_value) ==
    LET expected_value == IF node.is_field_comparison
                          THEN self.payload[node.value.v] ELSE node.value
        operator == node.operator
        order == PyOrder(actual_value, expected_value)
        type_error == Raise(TypeMismatchException(node.field,
                                TypeName(expected_value), TypeName(actual_value)))
        not_str_or_list == Raise(TypeMismatchException(node.field,
                                "string or list", TypeName(actual_value)))
        not_a_list == Raise(TypeMismatchException(node.field,
                                "expected value to be a list", TypeName(expected_value)))
    IN  CASE operator = "==" -> Ok(PyEq(actual_value, expected_value))
          [] operator = "!=" -> Ok(~PyEq(actual_value, expected_value))
          [] operator = ">" ->
               IF order = "TypeError" THEN type_error ELSE Ok(order = "gt")
          [] operator = ">=" ->
               IF order = "TypeError" THEN type_error ELSE Ok(order \in {"gt", "eq"})
          [] operator = "<" ->
               IF order = "TypeError" THEN type_error ELSE Ok(order = "lt")
          [] operator = "<=" ->
               IF order = "TypeError" THEN type_error ELSE Ok(order \in {"lt", "eq"})
          [] operator = "contains" ->
               IF actual_value.t \in {"str", "list"}
               THEN IF PyInRaises(expected_value, actual_value) THEN type_error
                    ELSE Ok(PyIn(expected_value, actual_value))
               ELSE not_str_or_list
          [] operator = "not_contains" ->
               IF actual_value.t \in {"str", "list"}
               THEN IF PyInRaises(expected_value, actual_value) THEN type_error
                    ELSE Ok(~PyIn(expected_value, actual_value))
               ELSE not_str_or_list
          [] operator = "in" ->
               IF expected_value.t = "list"
               THEN Ok(PyIn(actual_value, expected_value))
               ELSE not_a_list
          [] operator = "not_in" ->
               IF expected_value.t = "list"
               THEN Ok(~PyIn(actual_value, expected_value))
               ELSE not_a_list
          [] OTHER ->
               Raise(EvaluationException("Unsupported operator: " \o operator))

\* A comparison that takes the right-hand field's name as the value to
\* compare with.
NameStringComparison(self, node) ==
    IF node.field \notin DOMAIN self.payload
    THEN Result(Raise(MissingFieldException(node.field)), self)
    ELSE Result(_perform_comparison(self, [node EXCEPT !.is_field_comparison = FALSE],
                                    self.payload[node.field]), self)

\* A comparison that looks the right-hand field up before the left one.
RightFieldFirstComparison(self, node) ==
    IF node.is_field_comparison /\ node.value.v \notin DOMAIN self.payload
    THEN Result(Raise(MissingFieldException(node.value.v)), self)
    ELSE IF node.field \notin DOMAIN self.payload
    THEN Result(Raise(MissingFieldException(node.field)), self)
    ELSE Result(_perform_comparison(self, node, self.payload[node.field]), self)

\* ExpressionEvaluator._evaluate_comparison
_evaluate_comparison(self, node) ==
    IF node.field \notin DOMAIN self.payload
    THEN Result(Raise(MissingFieldException(node.field)), self)
    ELSE IF node.is_field_comparison /\ node.value.v \notin DOMAIN self.payload
    THEN Result(Raise(MissingFieldException(node.value.v)), self)
    ELSE
    LET actual_value == self.payload[node.field]
        expected_value == IF node.is_field_comparison
                          THEN self.payload[node.value.v] ELSE node.value
        operator == node.operator
        order == PyOrder(actual_value, expected_value)
        \* except TypeError
        type_error == Raise(TypeMismatchException(node.field,
                                TypeName(expected_value), TypeName(actual_value)))
        not_str_or_list == Raise(TypeMismatchException(node.field,
                                "string or list", TypeName(actual_value)))
        not_a_list == Raise(TypeMismatchException(node.field,
                                "expected value to be a list", TypeName(expected_value)))
        o == CASE operator = "==" -> Ok(PyEq(actual_value, expected_value))
               [] operator = "!=" -> Ok(~PyEq(actual_value, expected_value))
               [] operator = ">" ->
                    IF order = "TypeError" THEN type_error ELSE Ok(order = "gt")
               [] operator = ">=" ->
                    IF order = "TypeError" THEN type_error ELSE Ok(order \in {"gt", "eq"})
               [] operator = "<" ->
                    IF order = "TypeError" THEN type_error ELSE Ok(order = "lt")
               [] operator = "<=" ->
                    IF order = "TypeError" THEN type_error ELSE Ok(order \in {"lt", "eq"})
               [] operator = "contains" ->
                    IF actual_value.t = "str"
                    THEN IF PyInRaises(expected_value, actual_value) THEN type_error
                         ELSE Ok(PyIn(expected_value, actual_value))
                    ELSE IF actual_value.t = "list"
                    THEN Ok(PyIn(expected_value, actual_value))
                    ELSE not_str_or_list
               [] operator = "not_contains" ->
                    IF actual_value.t = "str"
                    THEN IF PyInRaises(expected_value, actual_value) THEN type_error
                         ELSE Ok(~PyIn(expected_value, actual_value))
                    ELSE IF actual_value.t = "list"
                    THEN Ok(~PyIn(expected_value, actual_value))
                    ELSE not_str_or_list
               [] operator = "in" ->
                    IF expected_value.t = "list"
                    THEN Ok(PyIn(actual_value, expected_value))
                    ELSE not_a_list
               [] operator = "not_in" ->
                    IF expected_value.t = "list"
                    THEN Ok(~PyIn(actual_value, expected_value))
                    ELSE not_a_list
               [] OTHER ->
                    Raise(EvaluationException("Unsupported operator: " \o operator))
    IN  Result(o, self)

\* The entry appended by the except branch of _evaluate_comparison_with_tracking.
ErrorEntry(self, node, e) ==
    [field |-> node.field,
     operator |-> node.operator,
     expected |-> IF node.is_field_comparison
                  THEN PayloadGet(self.payload, node.value.v) ELSE node.value,
     actual |-> PayloadGet(self.payload, node.field),
     passed |-> FALSE,
     error |-> e.message,
     is_field_comparison |-> node.is_field_comparison,
     compared_field |-> IF node.is_field_comparison THEN node.value ELSE None]

\* DetailedExpressionEvaluator._evaluate_comparison_with_tracking
_evaluate_comparison_with_tracking(self, node) ==
    LET caught(e) ==
            Result(Raise(e), [self EXCEPT !.comparison_results =
                                  Append(@, ErrorEntry(self, node, e))])
        actual_value == self.payload[node.field]
        expected_value == IF node.is_field_comparison
                          THEN self.payload[node.value.v] ELSE node.value
        tracked(passed) ==
            IF passed.kind = "raise"
            THEN IF passed.exc.type \in {"MissingFieldException", "TypeMismatchException"}
                 THEN caught(passed.exc)
                 ELSE Result(passed, self)
            ELSE Result(passed,
                        [self EXCEPT !.comparison_results = Append(@,
                            [field |-> node.field,
                             operator |-> node.operator,
                             expected |-> expected_value,
                             actual |-> actual_value,
                             passed |-> passed.value,
                             is_field_comparison |-> node.is_field_comparison,
                             compared_field |-> IF node.is_field_comparison
                                                THEN node.value ELSE None])])
    IN
    IF node.field \notin DOMAIN self.payload
    THEN caught(MissingFieldException(node.field))
    ELSE IF node.is_field_comparison /\ node.value.v \notin DOMAIN self.payload
    THEN caught(MissingFieldException(node.value.v))
    ELSE tracked(_perform_comparison(self, node, actual_value))

RECURSIVE evaluate(_, _)

\* A binary operation that stops at a left operand that already decides the
\* result, as Python's own 'and' / 'or' would.
ShortCircuitBinaryOp(self, node) ==
    LET with_right(left_result, right_result) ==
            IF right_result.outcome.kind = "raise" THEN right_result
            ELSE Result(Ok(IF node.operator = "AND"
                           THEN left_result.outcome.value /\ right_result.outcome.value
                           ELSE left_result.outcome.value \/ right_result.outcome.value),
                        right_result.self)
        with_left(left_result) ==
            IF left_result.outcome.kind = "raise" THEN left_result
            ELSE IF left_result.outcome.value = (node.operator = "OR")
            THEN left_result
            ELSE with_right(left_result, evaluate(left_result.self, node.right))
    IN  with_left(evaluate(self, node.left))

\* A binary operation that computes OR at every node.
AlwaysOrBinaryOp(self, node) ==
    LET combine(left_result, right_result) ==
            IF right_result.outcome.kind = "raise" THEN right_result
            ELSE Result(Ok(left_result.outcome.value \/ right_result.outcome.value),
                        right_result.self)
        with_left(left_result) ==
            IF left_result.outcome.kind = "raise" THEN left_result
            ELSE combine(left_result, evaluate(left_result.self, node.right))
    IN  with_left(evaluate(self, node.left))

\* ExpressionEvaluator._evaluate_binary_op, inherited by the tracing evaluator:
\* both operands are evaluated; an exception of the left one propagates.
_evaluate_binary_op(self, node) ==
    LET combine(left_result, right_result) ==
            IF right_result.outcome.kind = "raise" THEN right_result
            ELSE IF node.operator = "AND"
            THEN Result(Ok(left_result.outcome.value /\ right_result.outcome.value),
                        right_result.self)
            ELSE IF node.operator = "OR"
            THEN Result(Ok(left_result.outcome.value \/ right_result.outcome.value),
                        right_result.self)
            ELSE Result(Raise(EvaluationException(
                            "Unknown binary operator: " \o node.operator)),
                        right_result.self)
        with_left(left_result) ==
            IF left_result.outcome.kind = "raise" THEN left_result
            ELSE combine(left_result, evaluate(left_result.self, node.right))
    IN  with_left(evaluate(self, node.left))

\* ExpressionEvaluator.evaluate / DetailedExpressionEvaluator.evaluate
evaluate(self, node) ==
    IF node.kind = "ComparisonNode"
    THEN IF self.class = "DetailedExpressionEvaluator"
         THEN _evaluate_comparison_with_tracking(self, node)
         ELSE _evaluate_comparison(self, node)
    ELSE IF node.kind = "BinaryOpNode"
    THEN _evaluate_binary_op(self, node)
    ELSE Result(Raise(EvaluationException("Unknown node type")), self)

\* evaluate_expression: the boolean, or the exception it propagates.
evaluate_expression(expression_ast, p) ==
    evaluate(ExpressionEvaluator(p), expression_ast).outcome

\* A tracing evaluation that lets the exception of a comparison through.
PropagatingDetailed(expression_ast, p) ==
    LET returned(r) ==
            IF r.outcome.kind = "ok"
            THEN Ok([result |-> r.outcome.value,
                     comparison_results |-> r.self.comparison_results])
            ELSE Raise(r.outcome.exc)
    IN  returned(evaluate(DetailedExpressionEvaluator(p), expression_ast))

\* evaluate_expression_detailed: (result, comparison results); the three
\* evaluation exceptions are turned into (False, what was collected).
evaluate_expression_detailed(expression_ast, p) ==
    LET returned(r) ==
            IF r.outcome.kind = "ok"
            THEN Ok([result |-> r.outcome.value,
                     comparison_results |-> r.self.comparison_results])
            ELSE IF r.outcome.exc.type \in {"MissingFieldException",
                                            "TypeMismatchException", "EvaluationException"}
            THEN Ok([result |-> FALSE,
                     comparison_results |-> r.self.comparison_results])
            ELSE Raise(r.outcome.exc)
    IN  returned(evaluate(DetailedExpressionEvaluator(p), expression_ast))

(***************************************************************************)
(* Tokens and the recursive-descent parser (expression_parser.py).         *)
(* A parser object is [tokens, position]; position counts from 0.          *)
(***************************************************************************)
Token(type, value, position) == [type |-> type, value |-> value, position |-> position]

ExpressionParser(toks) == [tokens |-> toks, position |-> 0]

\* ExpressionParser._current_token
_current_token(self) ==
    IF self.position < Len(self.tokens)
    THEN self.tokens[self.position + 1]
    ELSE self.tokens[Len(self.tokens)]

\* ExpressionParser._advance
_advance(self) == [self EXCEPT !.position = @ + 1]

RECURSIVE _parse_or(_)

\* ExpressionParser._parse_comparison
_parse_comparison(self) ==
    LET closed(expr) ==
            IF expr.outcome.kind = "raise" THEN expr
            ELSE IF _current_token(expr.self).type # "RPAREN"
            THEN Result(Raise(ValueError("Expected ')' at position "
                           \o ToString(_current_token(expr.self).position))), expr.self)
            ELSE Result(expr.outcome, _advance(expr.self))
        field == _current_token(self).value.v
        self1 == _advance(self)
        operator == _current_token(self1).value.v
        self2 == _advance(self1)
        current_token == _current_token(self2)
    IN
    IF _current_token(self).type = "LPAREN"
    THEN closed(_parse_or(_advance(self)))
    ELSE IF _current_token(self).type # "FIELD"
    THEN Result(Raise(ValueError("Expected field name at position "
                    \o ToString(_current_token(self).position))), self)
    ELSE IF _current_token(self1).type # "OPERATOR"
    THEN Result(Raise(ValueError("Expected operator at position "
                    \o ToString(_current_token(self1).position))), self1)
    ELSE IF current_token.type \in {"VALUE", "FIELD"}
    THEN Result(Ok(ComparisonNode(field, operator, current_token.value,
                                  current_token.type = "FIELD")),
                _advance(self2))
    ELSE Result(Raise(ValueError("Expected value or field name at position "
                    \o ToString(current_token.position))), self2)

\* The while loop of ExpressionParser._parse_and, entered with left parsed.
RECURSIVE _parse_and_loop(_, _)
_parse_and_loop(self, left) ==
    LET again(right) ==
            IF right.outcome.kind = "raise" THEN right
            ELSE _parse_and_loop(right.self,
                                 BinaryOpNode("AND", left, right.outcome.value))
    IN  IF _current_token(self).type = "AND"
        THEN again(_parse_comparison(_advance(self)))
        ELSE Result(Ok(left), self)

\* ExpressionParser._parse_and
_parse_and(self) ==
    LET loop(left) ==
            IF left.outcome.kind = "raise" THEN left
            ELSE _parse_and_loop(left.self, left.outcome.value)
    IN  loop(_parse_comparison(self))

\* The while loop of ExpressionParser._parse_or, entered with left parsed.
RECURSIVE _parse_or_loop(_, _)
_parse_or_loop(self, left) ==
    LET again(right) ==
            IF right.outcome.kind = "raise" THEN right
            ELSE _parse_or_loop(right.self,
                                BinaryOpNode("OR", left, right.outcome.value))
    IN  IF _current_token(self).type = "OR"
        THEN again(_parse_and(_advance(self)))
        ELSE Result(Ok(left), self)

\* ExpressionParser._parse_or
_parse_or(self) ==
    LET loop(left) ==
            IF left.outcome.kind = "raise" THEN left
            ELSE _parse_or_loop(left.self, left.outcome.value)
    IN  loop(_parse_and(self))

\* ExpressionParser.parse: the AST or the ValueError, and the parser afterwards.
parse(self) == _parse_or(self)

\* extract_fields_from_ast, before list(set(fields)): the field names in visit order.
RECURSIVE FieldsInOrder(_)
FieldsInOrder(node) ==
    IF node.kind = "ComparisonNode"
    THEN IF node.is_field_comparison
         THEN <<node.field, node.value.v>> ELSE <<node.field>>
    ELSE FieldsInOrder(node.left) \o FieldsInOrder(node.right)

Range(s) == {s[i] : i \in 1..Len(s)}

\* The arrangements of a set of names. Iteration order of a set of str follows
\* the string hashes, which are randomised per process: hash_order is the
\* order in which this process iterates any set of names.
Orderings(S) ==
    {s \in [1..Cardinality(S) -> S] : \A i, j \in 1..Cardinality(S) : s[i] = s[j] => i = j}

\* A field extraction that overlooks the right-hand field of a field-to-field
\* comparison.
RECURSIVE LeftFields(_)
LeftFields(node) ==
    IF node.kind = "ComparisonNode" THEN {node.field}
    ELSE LeftFields(node.left) \cup LeftFields(node.right)

LeftFieldsOnly(node, hash_order) ==
    LET in_set(f) == f \in LeftFields(node)
    IN  SelectSeq(hash_order, in_set)

\* A field extraction without the final list(set(fields)).
FieldsWithRepeats(node, hash_order) == FieldsInOrder(node)

\* extract_fields_from_ast: list(set(fields)).
extract_fields_from_ast(node, hash_order) ==
    LET fields == Range(FieldsInOrder(node))
        in_set(f) == f \in fields
    IN  SelectSeq(hash_order, in_set)

(***************************************************************************)
(* str() and repr() of values, as the f-strings of the reason generator    *)
(* render them.                                                            *)
(***************************************************************************)
RECURSIVE JoinStrs(_, _)
JoinStrs(strs, sep) ==
    IF Len(strs) = 0 THEN ""
    ELSE IF Len(strs) = 1 THEN strs[1]
    ELSE strs[1] \o sep \o JoinStrs(Tail(strs), sep)

ScalarStr(v) ==
    CASE v.t = "int" -> ToString(v.v)
      [] v.t = "bool" -> IF v.v THEN "True" ELSE "False"
      [] v.t = "NoneType" -> "None"
      [] OTHER -> v.v

PyRepr(v) ==
    IF v.t = "str" THEN "'" \o v.v \o "'"
    ELSE IF v.t = "list"
    THEN "[" \o JoinStrs([i \in 1..Len(v.v) |->
                  IF v.v[i].t = "str" THEN "'" \o v.v[i].v \o "'"
                  ELSE ScalarStr(v.v[i])], ", ") \o "]"
    ELSE ScalarStr(v)

PyStr(v) == IF v.t = "str" THEN v.v ELSE PyRepr(v)

\* str.lower(), on the strings the model renders: their only capitals are
\* those of True, False and None.
Lower(s) ==
    CASE s = "True" -> "true"
      [] s = "False" -> "false"
      [] s = "None" -> "none"
      [] OTHER -> s

\* Truth value of an Optional[str].
Truthy(v) == v.t = "str" /\ v.v # ""

(***************************************************************************)
(* ReasonGenerator (reason_generator.py).                                  *)
(***************************************************************************)
_generate_field_comparison_fail_reason(field1, operator, field2, value1, value2) ==
    LET comparison ==
            CASE operator = "==" -> "should equal"
              [] operator = "!=" -> "should not equal"
              [] operator = ">" -> "should be greater than"
              [] operator = ">=" -> "should be greater than or equal to"
              [] operator = "<" -> "should be less than"
              [] operator = "<=" -> "should be less than or equal to"
              [] OTHER -> "failed " \o operator \o " check with"
        v1_str == IF value1.t = "str" THEN "'" \o value1.v \o "'" ELSE PyStr(value1)
        v2_str == IF value2.t = "str" THEN "'" \o value2.v \o "'" ELSE PyStr(value2)
    IN  field1 \o " (" \o v1_str \o ") " \o comparison \o " " \o field2
            \o " (" \o v2_str \o ")"

_reason_for_equals_fail(field, expected, actual) ==
    IF expected.t = "bool"
    THEN "Expected " \o field \o " to be " \o Lower(PyStr(expected))
             \o " but was " \o Lower(PyStr(actual))
    ELSE IF expected.t = "str"
    THEN "Expected " \o field \o " to be '" \o expected.v
             \o "' but was '" \o PyStr(actual) \o "'"
    ELSE IF expected.t \in {"int", "float"}
    THEN "Expected " \o field \o " to equal " \o PyStr(expected)
             \o " but was " \o PyStr(actual)
    ELSE "Expected " \o field \o " to be " \o PyStr(expected)
             \o " but was " \o PyStr(actual)

_reason_for_not_equals_fail(field, expected, actual) ==
    IF expected.t = "bool"
    THEN "Expected " \o field \o " to not be " \o Lower(PyStr(expected)) \o " but it was"
    ELSE IF expected.t = "str"
    THEN "Expected " \o field \o " to not be '" \o expected.v \o "' but it was"
    ELSE "Expected " \o field \o " to not equal " \o PyStr(expected) \o " but it did"

\* Called for a comparison that was evaluated and failed, so the operands
\* are ordered and the re-comparison cannot raise.
_reason_for_comparison_fail(field, operator, expected, actual) ==
    LET comparison ==
            CASE operator = ">" -> "greater than"
              [] operator = ">=" -> "greater than or equal to"
              [] operator = "<" -> "less than"
              [] operator = "<=" -> "less than or equal to"
              [] OTHER -> operator
        order == PyOrder(actual, expected)
        shown == field \o " (" \o PyStr(actual) \o ")"
    IN  IF operator = ">" /\ order \in {"lt", "eq"}
        THEN shown \o " must be greater than " \o PyStr(expected)
        ELSE IF operator = ">=" /\ order = "lt"
        THEN shown \o " must be at least " \o PyStr(expected)
        ELSE IF operator = "<" /\ order \in {"gt", "eq"}
        THEN shown \o " must be less than " \o PyStr(expected)
        ELSE IF operator = "<=" /\ order = "gt"
        THEN shown \o " must be at most " \o PyStr(expected)
        ELSE shown \o " is not " \o comparison \o " " \o PyStr(expected)

_reason_for_contains_fail(field, expected, actual) ==
    IF actual.t = "str"
    THEN "Expected " \o field \o " to contain '" \o PyStr(expected)
             \o "' but it doesn't (actual: '" \o actual.v \o "')"
    ELSE IF actual.t = "list"
    THEN "Expected " \o field \o " to contain '" \o PyStr(expected)
             \o "' but it doesn't (actual: " \o PyStr(actual) \o ")"
    ELSE "Expected " \o field \o " to contain '" \o PyStr(expected) \o "'"

_reason_for_not_contains_fail(field, expected, actual) ==
    IF actual.t = "str"
    THEN "Expected " \o field \o " to not contain '" \o PyStr(expected)
             \o "' but it does (actual: '" \o actual.v \o "')"
    ELSE IF actual.t = "list"
    THEN "Expected " \o field \o " to not contain '" \o PyStr(expected)
             \o "' but it does (actual: " \o PyStr(actual) \o ")"
    ELSE "Expected " \o field \o " to not contain '" \o PyStr(expected) \o "' but it does"

\* A truncation that counts the whole list as the rest.
MiscountedList(expected) ==
    "[" \o JoinStrs([i \in 1..3 |-> PyRepr(expected.v[i])], ", ")
        \o ", ... and " \o ToString(Len(expected.v)) \o " more]"

\* expected[:3] rendered with repr, then the count of the rest.
TruncatedList(expected) ==
    "[" \o JoinStrs([i \in 1..3 |-> PyRepr(expected.v[i])], ", ")
        \o ", ... and " \o ToString(Len(expected.v) - 3) \o " more]"

_reason_for_in_fail(field, expected, actual) ==
    IF expected.t = "list"
    THEN LET expected_str == IF Len(expected.v) <= 3 THEN PyStr(expected)
                             ELSE TruncatedList(expected)
         IN  "Expected " \o field \o " to be one of " \o expected_str
                 \o " but was '" \o PyStr(actual) \o "'"
    ELSE "Expected " \o field \o " to be in " \o PyStr(expected)
             \o " but was '" \o PyStr(actual) \o "'"

_reason_for_not_in_fail(field, expected, actual) ==
    IF expected.t = "list"
    THEN LET expected_str == IF Len(expected.v) <= 3 THEN PyStr(expected)
                             ELSE TruncatedList(expected)
         IN  "Expected " \o field \o " to not be in " \o expected_str
                 \o " but it was '" \o PyStr(actual) \o "'"
    ELSE "Expected " \o field \o " to not be in " \o PyStr(expected)
             \o " but it was '" \o PyStr(actual) \o "'"

_generate_fail_reason(field, operator, expected_value, actual_value, is_field_comparison, compared_field) ==
    IF is_field_comparison /\ Truthy(compared_field)
    THEN _generate_field_comparison_fail_reason(field, operator, compared_field.v,
                                                actual_value, expected_value)
    ELSE CASE operator = "==" -> _reason_for_equals_fail(field, expected_value, actual_value)
           [] operator = "!=" ->
                _reason_for_not_equals_fail(field, expected_value, actual_value)
           [] operator \in {">", ">=", "<", "<="} ->
                _reason_for_comparison_fail(field, operator, expected_value, actual_value)
           [] operator = "contains" ->
                _reason_for_contains_fail(field, expected_value, actual_value)
           [] operator = "not_contains" ->
                _reason_for_not_contains_fail(field, expected_value, actual_value)
           [] operator = "in" -> _reason_for_in_fail(field, expected_value, actual_value)
           [] operator = "not_in" ->
                _reason_for_not_in_fail(field, expected_value, actual_value)
           [] OTHER -> field \o " failed " \o operator \o " check (expected: "
                           \o PyStr(expected_value) \o ", actual: "
                           \o PyStr(actual_value) \o ")"

_generate_pass_reason(field, operator, expected_value, actual_value, is_field_comparison, compared_field) ==
    IF is_field_comparison /\ Truthy(compared_field)
    THEN field \o " " \o operator \o " " \o compared_field.v \o " check passed"
    ELSE field \o " passed " \o operator \o " check"

generate_reason(field, operator, expected_value, actual_value, passed, is_field_comparison, compared_field) ==
    IF passed
    THEN _generate_pass_reason(field, operator, expected_value, actual_value,
                               is_field_comparison, compared_field)
    ELSE _generate_fail_reason(field, operator, expected_value, actual_value,
                               is_field_comparison, compared_field)

generate_error_reason(field, error_message) == field \o ": " \o error_message

(***************************************************************************)
(* Domain models (models.py).                                              *)
(***************************************************************************)
Predicate(field, operator, value) ==
    [field |-> field, operator |-> operator, value |-> value]

\* A constructor without the checks of __post_init__.
UncheckedRule(id, name, description, predicates, expression, logical_operator) ==
    Ok([id |-> id, name |-> name, description |-> description,
        predicates |-> predicates, expression |-> expression,
        logical_operator |-> logical_operator])

\* Rule(...) with Rule.__post_init__: the Rule, or the ValueError.
Rule(id, name, description, predicates, expression, logical_operator) ==
    IF predicates = Nothing /\ expression = Nothing
    THEN Raise(ValueError("Rule must have either predicates or expression"))
    ELSE IF predicates # Nothing /\ expression # Nothing
    THEN Raise(ValueError("Rule cannot have both predicates and expression"))
    ELSE IF logical_operator \notin {"AND", "OR"}
    THEN Raise(ValueError("logical_operator must be 'AND' or 'OR'"))
    ELSE Ok([id |-> id, name |-> name, description |-> description,
             predicates |-> predicates, expression |-> expression,
             logical_operator |-> logical_operator])

EvaluationResult(rule_id, rule_name, result, reason, predicate_results) ==
    [rule_id |-> rule_id, rule_name |-> rule_name, result |-> result,
     reason |-> reason, predicate_results |-> predicate_results]

EvaluationResponse(result, reasons, details) ==
    [result |-> result, reasons |-> reasons, details |-> details]

(***************************************************************************)
(* Expression text. An expression is kept as its sequence of lexemes       *)
(* [type, value], written with one space between lexemes; tokenize gives   *)
(* each its source position and ends the sequence with Eof.                *)
(***************************************************************************)
Lexeme(type, value) == [type |-> type, value |-> value]

\* The source text of a literal.
Literal(v) ==
    CASE v.t = "str" -> "'" \o v.v \o "'"
      [] v.t = "bool" -> IF v.v THEN "true" ELSE "false"
      [] v.t = "NoneType" -> "null"
      [] v.t = "list" -> PyRepr(v)
      [] OTHER -> ToString(v.v)

LexemeText(l) == IF l.type = "VALUE" THEN Literal(l.value) ELSE l.value.v

\* ExpressionTokenizer.tokenize from lexeme i on, the scan position being at
\* offset: a Value token records the position after it, the others the
\* position at which they start.
RECURSIVE TokenizeFrom(_, _, _)
TokenizeFrom(expression, i, offset) ==
    IF i > Len(expression)
    THEN <<Token("EOF", None, IF offset = 0 THEN 0 ELSE offset - 1)>>
    ELSE LET l == expression[i]
             end == offset + Len(LexemeText(l))
         IN  <<Token(l.type, l.value, IF l.type = "VALUE" THEN end ELSE offset)>>
                 \o TokenizeFrom(expression, i + 1, end + 1)

tokenize(expression) == TokenizeFrom(expression, 1, 0)

\* parse_expression: the AST, or the ValueError.
parse_expression(expression) == parse(ExpressionParser(tokenize(expression))).outcome

(***************************************************************************)
(* EvaluationService (services.py).                                        *)
(***************************************************************************)
PASS == "PASS"
FAIL == "FAIL"

TypeError(msg) == [type |-> "TypeError", field |-> "", message |-> msg]

\* EvaluationService._evaluate_predicate
_evaluate_predicate(predicate, p) ==
    IF predicate.field \notin DOMAIN p
    THEN Raise(MissingFieldException(predicate.field))
    ELSE
    LET actual_value == p[predicate.field]
        expected_value == predicate.value
        order == PyOrder(actual_value, expected_value)
        type_error == Raise(TypeMismatchException(predicate.field,
                                TypeName(expected_value), TypeName(actual_value)))
        not_str_or_list == Raise(TypeMismatchException(predicate.field,
                                "string or list", TypeName(actual_value)))
        not_a_list == Raise(TypeMismatchException(predicate.field,
                                "expected value to be a list", TypeName(expected_value)))
    IN  CASE predicate.operator = "==" -> Ok(PyEq(actual_value, expected_value))
          [] predicate.operator = "!=" -> Ok(~PyEq(actual_value, expected_value))
          [] predicate.operator = ">" ->
               IF order = "TypeError" THEN type_error ELSE Ok(order = "gt")
          [] predicate.operator = ">=" ->
               IF order = "TypeError" THEN type_error ELSE Ok(order \in {"gt", "eq"})
          [] predicate.operator = "<" ->
               IF order = "TypeError" THEN type_error ELSE Ok(order = "lt")
          [] predicate.operator = "<=" ->
               IF order = "TypeError" THEN type_error ELSE Ok(order \in {"lt", "eq"})
          [] predicate.operator = "contains" ->
               IF actual_value.t = "str"
               THEN IF PyInRaises(expected_value, actual_value) THEN type_error
                    ELSE Ok(PyIn(expected_value, actual_value))
               ELSE IF actual_value.t = "list"
               THEN Ok(PyIn(expected_value, actual_value))
               ELSE not_str_or_list
          [] predicate.operator = "not_contains" ->
               IF actual_value.t = "str"
               THEN IF PyInRaises(expected_value, actual_value) THEN type_error
                    ELSE Ok(~PyIn(expected_value, actual_value))
               ELSE IF actual_value.t = "list"
               THEN Ok(~PyIn(expected_value, actual_value))
               ELSE not_str_or_list
          [] predicate.operator = "in" ->
               IF expected_value.t = "list"
               THEN Ok(PyIn(actual_value, expected_value))
               ELSE not_a_list
          [] predicate.operator = "not_in" ->
               IF expected_value.t = "list"
               THEN Ok(~PyIn(actual_value, expected_value))
               ELSE not_a_list
          [] OTHER ->
               Raise(EvaluationException("Unsupported operator: " \o predicate.operator))

\* The locals of _evaluate_predicate_rule before its loop.
PredicateLocals ==
    [predicate_results |-> <<>>, passed_count |-> 0, failed_count |-> 0,
     failed_predicate_reasons |-> <<>>]

\* One iteration of the loop of _evaluate_predicate_rule: the locals after
\* it, or the exception that the loop does not catch.
_predicate_step(predicate, p, locals) ==
    LET actual_value == PayloadGet(p, predicate.field)
        appended(passed, reason) ==
            Ok([predicate_results |->
                    Append(locals.predicate_results,
                           [field |-> predicate.field,
                            operator |-> predicate.operator,
                            expected |-> predicate.value,
                            actual |-> actual_value,
                            passed |-> passed,
                            reason |-> reason]),
                passed_count |-> locals.passed_count + (IF passed THEN 1 ELSE 0),
                failed_count |-> locals.failed_count + (IF passed THEN 0 ELSE 1),
                failed_predicate_reasons |->
                    IF passed THEN locals.failed_predicate_reasons
                    ELSE Append(locals.failed_predicate_reasons, reason)])
        caught(e, error_reason) ==
            Ok([predicate_results |->
                    Append(locals.predicate_results,
                           [field |-> predicate.field,
                            operator |-> predicate.operator,
                            expected |-> predicate.value,
                            error |-> e.message,
                            passed |-> FALSE,
                            reason |-> error_reason]),
                passed_count |-> locals.passed_count,
                failed_count |-> locals.failed_count + 1,
                failed_predicate_reasons |->
                    Append(locals.failed_predicate_reasons, error_reason)])
        step(passed) ==
            IF passed.kind = "ok"
            THEN appended(passed.value,
                          generate_reason(predicate.field, predicate.operator,
                                          predicate.value, actual_value,
                                          passed.value, FALSE, None))
            ELSE IF passed.exc.type \in {"MissingFieldException",
                                        "TypeMismatchException"}
            THEN caught(passed.exc,
                        generate_error_reason(predicate.field, passed.exc.message))
            ELSE passed
    IN  step(_evaluate_predicate(predicate, p))

\* A predicate loop that gives up at the first predicate that raises.
RECURSIVE StopAtFirstErrorLoop(_, _, _, _)
StopAtFirstErrorLoop(predicates, p, i, locals) ==
    LET next(step) ==
            IF step.kind = "raise" THEN step
            ELSE StopAtFirstErrorLoop(predicates, p, i + 1, step.value)
    IN  IF i > Len(predicates) THEN Ok(locals)
        ELSE IF _evaluate_predicate(predicates[i], p).kind = "raise"
        THEN Ok([locals EXCEPT !.failed_count = @ + 1])
        ELSE next(_predicate_step(predicates[i], p, locals))

\* The loop of _evaluate_predicate_rule from predicate i on.
RECURSIVE _predicate_loop(_, _, _, _)
_predicate_loop(predicates, p, i, locals) ==
    LET next(step) ==
            IF step.kind = "raise" THEN step
            ELSE _predicate_loop(predicates, p, i + 1, step.value)
    IN  IF i > Len(predicates) THEN Ok(locals)
        ELSE next(_predicate_step(predicates[i], p, locals))

\* A rule-level reason that keeps only the first failing reason.
FirstFailedReason(r, failed_reasons) ==
    IF Len(failed_reasons) > 0 THEN failed_reasons[1]
    ELSE "Rule " \o r.name \o " failed"

\* The rule-level reason of a failed rule.
FailedReason(r, failed_reasons) ==
    IF Len(failed_reasons) > 0
    THEN IF Len(failed_reasons) = 1 THEN failed_reasons[1]
         ELSE JoinStrs(failed_reasons, "; ")
    ELSE "Rule " \o r.name \o " failed"

\* Predicate rules decided as if every rule were an AND rule, and as if every
\* rule were an OR rule.
AndOnlyPredicateRule(r, p) ==
    LET decided(locals, rule_passed) ==
            Ok(EvaluationResult(r.id, r.name, IF rule_passed THEN PASS ELSE FAIL,
                   IF rule_passed THEN r.name \o " passed all conditions"
                   ELSE FailedReason(r, locals.failed_predicate_reasons),
                   locals.predicate_results))
        after_loop(loop) == decided(loop.value, loop.value.failed_count = 0)
    IN  after_loop(_predicate_loop(r.predicates[1], p, 1, PredicateLocals))

OrOnlyPredicateRule(r, p) ==
    LET decided(locals, rule_passed) ==
            Ok(EvaluationResult(r.id, r.name, IF rule_passed THEN PASS ELSE FAIL,
                   IF rule_passed THEN r.name \o " passed all conditions"
                   ELSE FailedReason(r, locals.failed_predicate_reasons),
                   locals.predicate_results))
        after_loop(loop) == decided(loop.value, loop.value.passed_count > 0)
    IN  after_loop(_predicate_loop(r.predicates[1], p, 1, PredicateLocals))

\* EvaluationService._evaluate_predicate_rule
_evaluate_predicate_rule(r, p) ==
    LET decided(locals, rule_passed) ==
            Ok(EvaluationResult(r.id, r.name, IF rule_passed THEN PASS ELSE FAIL,
                   IF rule_passed THEN r.name \o " passed all conditions"
                   ELSE FailedReason(r, locals.failed_predicate_reasons),
                   locals.predicate_results))
        after_loop(loop) ==
            IF loop.kind = "raise" THEN loop
            ELSE decided(loop.value,
                         IF r.logical_operator = "AND"
                         THEN loop.value.failed_count = 0
                         ELSE loop.value.passed_count > 0)
    IN  IF r.predicates = Nothing
        THEN Raise(TypeError("'NoneType' object is not iterable"))
        ELSE after_loop(_predicate_loop(r.predicates[1], p, 1, PredicateLocals))

\* The loop of _evaluate_expression_rule over comparison_results, from entry i
\* on: [predicate_results, failed_reasons].
RECURSIVE _comparison_loop(_, _, _)
_comparison_loop(comparison_results, i, locals) ==
    LET comp_result == comparison_results[i]
        has_error == "error" \in DOMAIN comp_result
        appended(reason) ==
            [predicate_results |->
                 Append(locals.predicate_results,
                        [field |-> comp_result.field,
                         operator |-> comp_result.operator,
                         expected |-> comp_result.expected,
                         actual |-> comp_result.actual,
                         passed |-> comp_result.passed,
                         reason |-> reason,
                         error |-> IF has_error THEN Str_(comp_result.error)
                                   ELSE None]),
             failed_reasons |-> IF comp_result.passed THEN locals.failed_reasons
                                ELSE Append(locals.failed_reasons, reason)]
    IN  IF i > Len(comparison_results) THEN locals
        ELSE _comparison_loop(comparison_results, i + 1,
                 appended(IF has_error
                          THEN generate_error_reason(comp_result.field,
                                                     comp_result.error)
                          ELSE generate_reason(comp_result.field,
                                               comp_result.operator,
                                               comp_result.expected,
                                               comp_result.actual,
                                               comp_result.passed,
                                               comp_result.is_field_comparison,
                                               comp_result.compared_field)))

\* EvaluationService._evaluate_expression_rule. A ValueError of
\* parse_expression is not among the exceptions it catches.
_evaluate_expression_rule(r, p, hash_order) ==
    LET absent(f) == f \notin DOMAIN p
        decided(passed, locals) ==
            Ok(EvaluationResult(r.id, r.name, IF passed THEN PASS ELSE FAIL,
                   IF passed THEN r.name \o " passed all conditions"
                   ELSE FailedReason(r, locals.failed_reasons),
                   locals.predicate_results))
        evaluated(detailed) ==
            IF detailed.kind = "raise"
            THEN IF detailed.exc.type \in {"MissingFieldException",
                                            "TypeMismatchException",
                                            "EvaluationException"}
                 THEN Ok(EvaluationResult(r.id, r.name, FAIL, detailed.exc.message,
                             <<[expression |-> r.expression[1],
                                error |-> detailed.exc.message,
                                passed |-> FALSE]>>))
                 ELSE detailed
            ELSE decided(detailed.value.result,
                         _comparison_loop(detailed.value.comparison_results, 1,
                             [predicate_results |-> <<>>, failed_reasons |-> <<>>]))
        missing(missing_fields_str) ==
            Ok(EvaluationResult(r.id, r.name, FAIL,
                   "Missing required fields: " \o missing_fields_str,
                   <<[error |-> "Missing required fields: " \o missing_fields_str,
                      passed |-> FALSE]>>))
        checked(expression_ast, missing_fields) ==
            IF Len(missing_fields) > 0
            THEN missing(JoinStrs(missing_fields, ", "))
            ELSE evaluated(evaluate_expression_detailed(expression_ast, p))
        parsed(expression_ast) ==
            IF expression_ast.kind = "raise" THEN expression_ast
            ELSE checked(expression_ast.value,
                         SelectSeq(extract_fields_from_ast(expression_ast.value,
                                                           hash_order), absent))
    IN  parsed(parse_expression(r.expression[1]))

\* EvaluationService._evaluate_rule: 'if rule.expression' is false for None
\* and for the empty string.
_evaluate_rule(r, p, hash_order) ==
    IF r.expression # Nothing /\ r.expression[1] # <<>>
    THEN _evaluate_expression_rule(r, p, hash_order)
    ELSE _evaluate_predicate_rule(r, p)

\* RuleNotFoundException(rule_id)
RuleNotFoundException(rule_id) ==
    [type |-> "RuleNotFoundException", field |-> "",
     message |-> "Rule with id '" \o rule_id \o "' not found"]

\* UUID(s): the UUID a string denotes, or the ValueError. A UUID is kept as
\* its canonical text; hexadecimal digits are accepted in either case, so
\* several strings denote one UUID.
UUID(s) ==
    CASE s \in {"id1", "ID1"} -> Ok("id1")
      [] s \in {"id2", "ID2"} -> Ok("id2")
      [] s \in {"id3", "ID3"} -> Ok("id3")
      [] OTHER -> Raise(ValueError("badly formed hexadecimal UUID string"))

\* FileRuleRepository.get_by_id: the first stored rule with the id, or None.
get_by_id(rules, rule_id) ==
    LET found == {i \in 1..Len(rules) : rules[i].id = rule_id}
    IN  IF found = {} THEN Nothing
        ELSE Some(rules[CHOOSE i \in found : \A j \in found : i <= j])

\* A first loop that leaves out the ids it cannot resolve.
RECURSIVE SkippingLookupLoop(_, _, _, _)
SkippingLookupLoop(rules, ids, i, rules_to_evaluate) ==
    IF i > Len(ids) THEN Ok(rules_to_evaluate)
    ELSE IF UUID(ids[i]).kind = "raise" \/ get_by_id(rules, UUID(ids[i]).value) = Nothing
    THEN SkippingLookupLoop(rules, ids, i + 1, rules_to_evaluate)
    ELSE SkippingLookupLoop(rules, ids, i + 1,
                            Append(rules_to_evaluate, get_by_id(rules, UUID(ids[i]).value)[1]))

\* The first loop of EvaluationService.evaluate, from rule id i on:
\* rules_to_evaluate, or the exception of the first id that fails.
RECURSIVE _lookup_loop(_, _, _, _)
_lookup_loop(rules, ids, i, rules_to_evaluate) ==
    LET looked_up(found) ==
            IF found = Nothing THEN Raise(RuleNotFoundException(ids[i]))
            ELSE _lookup_loop(rules, ids, i + 1, Append(rules_to_evaluate, found[1]))
        converted(rule_id) ==
            IF rule_id.kind = "raise"
            THEN Raise(EvaluationException("Invalid UUID format: " \o ids[i]))
            ELSE looked_up(get_by_id(rules, rule_id.value))
    IN  IF i > Len(ids) THEN Ok(rules_to_evaluate)
        ELSE converted(UUID(ids[i]))

\* The locals of EvaluationService.evaluate before its second loop.
EvaluateLocals == [evaluation_results |-> <<>>, all_passed |-> TRUE, reasons |-> <<>>]

\* A second loop in which the last rule alone decides all_passed.
RECURSIVE LastRuleDecidesLoop(_, _, _, _, _)
LastRuleDecidesLoop(rules_to_evaluate, p, hash_order, i, locals) ==
    LET evaluated(r, result) ==
            IF result.kind = "raise" THEN result
            ELSE LastRuleDecidesLoop(rules_to_evaluate, p, hash_order, i + 1,
                     [evaluation_results |->
                          Append(locals.evaluation_results, result.value),
                      all_passed |-> result.value.result # FAIL,
                      reasons |-> Append(locals.reasons,
                                         r.name \o ": " \o result.value.reason)])
    IN  IF i > Len(rules_to_evaluate) THEN Ok(locals)
        ELSE evaluated(rules_to_evaluate[i],
                       _evaluate_rule(rules_to_evaluate[i], p, hash_order))

\* The second loop of EvaluationService.evaluate, from rule i on: its locals
\* afterwards, or the exception _evaluate_rule lets through.
RECURSIVE _rules_loop(_, _, _, _, _)
_rules_loop(rules_to_evaluate, p, hash_order, i, locals) ==
    LET evaluated(r, result) ==
            IF result.kind = "raise" THEN result
            ELSE _rules_loop(rules_to_evaluate, p, hash_order, i + 1,
                     [evaluation_results |->
                          Append(locals.evaluation_results, result.value),
                      all_passed |-> IF result.value.result = FAIL THEN FALSE
                                     ELSE locals.all_passed,
                      reasons |-> Append(locals.reasons,
                                         r.name \o ": " \o result.value.reason)])
    IN  IF i > Len(rules_to_evaluate) THEN Ok(locals)
        ELSE evaluated(rules_to_evaluate[i],
                       _evaluate_rule(rules_to_evaluate[i], p, hash_order))

\* EvaluationService.evaluate, the repository holding rules.
EvaluationService_evaluate(rules, p, ids, hash_order) ==
    LET respond(loop) ==
            IF loop.kind = "raise" THEN loop
            ELSE Ok(EvaluationResponse(
                        IF loop.value.all_passed THEN PASS ELSE FAIL,
                        loop.value.reasons, loop.value.evaluation_results))
        looked_up(rules_to_evaluate) ==
            IF rules_to_evaluate.kind = "raise" THEN rules_to_evaluate
            ELSE respond(_rules_loop(rules_to_evaluate.value, p, hash_order, 1,
                                     EvaluateLocals))
    IN  IF Len(ids) = 0
        THEN Raise(EvaluationException("At least one rule_id must be provided"))
        ELSE looked_up(_lookup_loop(rules, ids, 1, <<>>))

(***************************************************************************)
(* The inputs of the model.                                                *)
(***************************************************************************)
FieldNames == {"age", "lim", "tag"}

\* The values a payload can give each field.
FieldValues ==
    [f \in FieldNames |->
        CASE f = "age" -> {Int_(17), Int_(25), Str_("x")}
          [] f = "lim" -> {Int_(20)}
          [] f = "tag" -> {Str_("x"), Str_("z")}]

Payloads ==
    UNION {{p \in [S -> UNION {FieldValues[f] : f \in FieldNames}] :
                \A f \in S : p[f] \in FieldValues[f]} : S \in SUBSET FieldNames}

HashOrders == Orderings(FieldNames)

FieldLexeme(f) == Lexeme("FIELD", Str_(f))
OperatorLexeme(op) == Lexeme("OPERATOR", Str_(op))
ValueLexeme(v) == Lexeme("VALUE", v)
AndLexeme == Lexeme("AND", Str_("AND"))
OrLexeme == Lexeme("OR", Str_("OR"))
LParenLexeme == Lexeme("LPAREN", Str_("("))
RParenLexeme == Lexeme("RPAREN", Str_(")"))

\* The comparisons that trees are built from: age >= 18 and tag == 'x'.
Comparisons ==
    {ComparisonNode("age", ">=", Int_(18), FALSE),
     ComparisonNode("tag", "==", Str_("x"), FALSE)}

Operators == {"==", "!=", ">", ">=", "<", "<=", "contains", "not_contains", "in", "not_in"}

\* Further comparisons, evaluated alone: every operator against a number, a
\* string and a list, and the field-to-field age < lim and tag == age.
SingleComparisons ==
    {ComparisonNode("age", op, v, FALSE) :
        op \in Operators, v \in {Int_(17), Str_("x"), List_(<<Int_(17), Str_("x")>>)}}
        \cup {ComparisonNode("age", "<", Str_("lim"), TRUE),
              ComparisonNode("tag", "==", Str_("age"), TRUE)}

\* The trees with n comparisons.
RECURSIVE Trees(_)
Trees(n) ==
    IF n = 1 THEN Comparisons
    ELSE UNION {{BinaryOpNode(op, l, r) :
                    op \in {"AND", "OR"}, l \in Trees(k), r \in Trees(n - k)} :
                k \in 1..(n - 1)}

\* The text of a tree: a binary operand is parenthesised where the grammar
\* would otherwise regroup it.
RECURSIVE Unparse(_)
Unparse(node) ==
    IF node.kind = "ComparisonNode"
    THEN <<FieldLexeme(node.field), OperatorLexeme(node.operator),
           IF node.is_field_comparison THEN FieldLexeme(node.value.v)
           ELSE ValueLexeme(node.value)>>
    ELSE LET operand(child, is_right) ==
                 IF /\ child.kind = "BinaryOpNode"
                    /\ \/ (node.operator = "AND" /\ child.operator = "OR")
                       \/ (is_right /\ child.operator = node.operator)
                 THEN <<LParenLexeme>> \o Unparse(child) \o <<RParenLexeme>>
                 ELSE Unparse(child)
         IN  operand(node.left, FALSE)
                 \o <<IF node.operator = "AND" THEN AndLexeme ELSE OrLexeme>>
                 \o operand(node.right, TRUE)

Expressions(n) ==
    {Unparse(t) : t \in UNION {Trees(k) : k \in 1..n}}
        \cup {Unparse(c) : c \in SingleComparisons}

\* The predicates of predicate rules.
Predicates ==
    {Predicate("age", ">=", Int_(18)),
     Predicate("tag", "==", Str_("x")),
     Predicate("tag", "in", List_(<<Str_("x"), Str_("y")>>))}

\* RuleService._validate_rule_data admits no rule with an empty predicate list.
PredicateLists(n) == UNION {[1..k -> Predicates] : k \in 1..n}

ExpressionRules(n) ==
    {Rule("id1", "R", "", Nothing, Some(e), "AND").value : e \in Expressions(n)}

PredicateRules(n) ==
    {Rule("id1", "R", "", Some(ps), Nothing, op).value :
        ps \in PredicateLists(n), op \in {"AND", "OR"}}

(***************************************************************************)
(* Spec: one evaluation of a rule against a payload, by the plain          *)
(* evaluator, by the tracing evaluator or by the rule-level evaluator.     *)
(***************************************************************************)
NotRun == [kind |-> "none", value |-> FALSE, exc |-> NoExc]
Unused == <<>>

IsExpressionRule(r) == r.expression # Nothing

Init ==
    /\ rule \in ExpressionRules(MaxLeaves) \cup PredicateRules(MaxPreds)
    /\ payload \in Payloads
    /\ ast = IF IsExpressionRule(rule)
                        THEN parse_expression(rule.expression[1]) ELSE NotRun
    /\ plain_result = NotRun
    /\ detailed_result = NotRun
    /\ evaluation_result = NotRun
    /\ tokens = Unused
    /\ parse_result = Unused
    /\ store = Unused
    /\ rule_ids = Unused
    /\ response = Unused
    /\ text = Unused
    /\ tokenize_result = Unused
    /\ parse_expression_result = Unused
    /\ file = Unused
    /\ call = Unused
    /\ call_result = Unused
    /\ evaluations = Unused
    /\ lists = Unused
    /\ threads = Unused

Idle ==
    /\ plain_result.kind = "none"
    /\ detailed_result.kind = "none"
    /\ evaluation_result.kind = "none"

\* evaluate_expression(ast, payload)
EvaluateExpression ==
    /\ Idle
    /\ ast.kind = "ok"
    /\ plain_result' = evaluate_expression(ast.value, payload)
    /\ UNCHANGED <<threadVars, ruleVars, textVars, tokens, parse_result, rule, payload, ast, detailed_result,
                   evaluation_result, store, rule_ids, response>>

\* A tracing evaluation that takes the fields it reads out of the payload.
ConsumingEvaluateExpressionDetailed ==
    /\ Idle
    /\ ast.kind = "ok"
    /\ detailed_result' = evaluate_expression_detailed(ast.value, payload)
    /\ payload' = [f \in DOMAIN payload \ Range(FieldsInOrder(ast.value)) |->
                       payload[f]]
    /\ UNCHANGED <<threadVars, ruleVars, textVars, tokens, parse_result, rule, ast, plain_result,
                   evaluation_result, store, rule_ids, response>>

\* evaluate_expression_detailed(ast, payload)
EvaluateExpressionDetailed ==
    /\ Idle
    /\ ast.kind = "ok"
    /\ detailed_result' = evaluate_expression_detailed(ast.value, payload)
    /\ UNCHANGED <<threadVars, ruleVars, textVars, tokens, parse_result, rule, payload, ast, plain_result,
                   evaluation_result, store, rule_ids, response>>

\* EvaluationService._evaluate_rule(rule, payload)
EvaluateRule ==
    /\ Idle
    /\ \E hash_order \in HashOrders :
           evaluation_result' = _evaluate_rule(rule, payload, hash_order)
    /\ UNCHANGED <<threadVars, ruleVars, textVars, tokens, parse_result, rule, payload, ast, plain_result,
                   detailed_result, store, rule_ids, response>>

Next == EvaluateExpression \/ EvaluateExpressionDetailed \/ EvaluateRule

Spec == Init /\ [][Next]_vars

(***************************************************************************)
(* SpecService: one request to EvaluationService.evaluate against a        *)
(* repository of two rules.                                                *)
(***************************************************************************)
\* The rules the repository holds: an expression rule first, a predicate
\* rule second.
Stores ==
    {<<Rule("id1", "R1", "", Nothing, Some(Unparse(c)), "AND").value,
       Rule("id2", "R2", "",
            Some(<<Predicate("age", ">=", Int_(18)), Predicate("tag", "==", Str_("x"))>>),
            Nothing, op).value>> :
        c \in {ComparisonNode("age", ">=", Int_(18), FALSE),
               ComparisonNode("age", "<", Str_("lim"), TRUE)},
        op \in {"AND", "OR"}}

\* The payloads of requests: age and lim present or not, tag present.
ServicePayloads ==
    {p \in Payloads : "tag" \in DOMAIN p /\ PayloadGet(p, "age") # Str_("x")}

\* The strings a request can give as rule ids: stored ids, one of them also
\* in capitals, the id of no stored rule, and a string that is no UUID.
IdStrings == {"id1", "ID1", "id2", "id3", "bad"}

InitService ==
    /\ store \in Stores
    /\ payload \in ServicePayloads
    /\ rule_ids \in UNION {[1..n -> IdStrings] : n \in 0..MaxIds}
    /\ response = NotRun
    /\ tokens = Unused
    /\ parse_result = Unused
    /\ rule = Unused
    /\ ast = Unused
    /\ plain_result = Unused
    /\ detailed_result = Unused
    /\ evaluation_result = Unused
    /\ text = Unused
    /\ tokenize_result = Unused
    /\ parse_expression_result = Unused
    /\ file = Unused
    /\ call = Unused
    /\ call_result = Unused
    /\ evaluations = Unused
    /\ lists = Unused
    /\ threads = Unused

\* EvaluationService.evaluate(payload, rule_ids)
Evaluate ==
    /\ response.kind = "none"
    /\ \E hash_order \in HashOrders :
           response' = EvaluationService_evaluate(store, payload, rule_ids, hash_order)
    /\ UNCHANGED <<threadVars, ruleVars, textVars, tokens, parse_result, rule, payload, ast, plain_result,
                   detailed_result, evaluation_result, store, rule_ids>>

NextService == Evaluate

SpecService == InitService /\ [][NextService]_vars

(***************************************************************************)
(* SpecParse: one run of the parser over a token sequence.                 *)
(***************************************************************************)
\* The pieces token sequences are made of: three comparisons, the two
\* keywords and the parentheses.
Items ==
    {<<FieldLexeme("a"), OperatorLexeme("=="), ValueLexeme(Int_(1))>>,
     <<FieldLexeme("b"), OperatorLexeme("=="), ValueLexeme(Int_(2))>>,
     <<FieldLexeme("c"), OperatorLexeme("=="), ValueLexeme(Int_(3))>>,
     <<AndLexeme>>, <<OrLexeme>>, <<LParenLexeme>>, <<RParenLexeme>>}

\* The texts made of n pieces, in whatever order.
RECURSIVE ItemSequences(_)
ItemSequences(n) ==
    IF n = 0 THEN {<<>>}
    ELSE {e \o item : e \in ItemSequences(n - 1), item \in Items}

InitParse ==
    /\ tokens \in {tokenize(e) :
                      e \in UNION {ItemSequences(n) : n \in 0..MaxItems}
                                \cup Expressions(MaxLeaves)}
    /\ parse_result = NotRun
    /\ rule = Unused
    /\ payload = Unused
    /\ ast = Unused
    /\ plain_result = Unused
    /\ detailed_result = Unused
    /\ evaluation_result = Unused
    /\ store = Unused
    /\ rule_ids = Unused
    /\ response = Unused
    /\ text = Unused
    /\ tokenize_result = Unused
    /\ parse_expression_result = Unused
    /\ file = Unused
    /\ call = Unused
    /\ call_result = Unused
    /\ evaluations = Unused
    /\ lists = Unused
    /\ threads = Unused

\* ExpressionParser(tokens).parse(): the outcome, with the position at which
\* the parser stopped.
Parse ==
    /\ parse_result = NotRun
    /\ LET done(r) == [kind |-> r.outcome.kind, value |-> r.outcome.value,
                       exc |-> r.outcome.exc, position |-> r.self.position]
       IN  parse_result' = done(parse(ExpressionParser(tokens)))
    /\ UNCHANGED <<threadVars, ruleVars, textVars, tokens, rule, payload, ast, plain_result, detailed_result,
                   evaluation_result, store, rule_ids, response>>

NextParse == Parse

SpecParse == InitParse /\ [][NextParse]_vars

(***************************************************************************)
(* ExpressionTokenizer (expression_parser.py), character by character.     *)
(* A text is the sequence of its characters, each a one-character string;  *)
(* a tokenizer object is [expression, position, length], position counting *)
(* from 0 as in the source.                                                *)
(***************************************************************************)
Digits == <<"0", "1", "2", "3", "4", "5", "6", "7", "8", "9">>
LowerCase ==
    <<"a", "b", "c", "d", "e", "f", "g", "h", "i", "j", "k", "l", "m", "n", "o", "p", "q", "r", "s", "t", "u", "v", "w", "x", "y", "z">>
UpperCase ==
    <<"A", "B", "C", "D", "E", "F", "G", "H", "I", "J", "K", "L", "M", "N", "O", "P", "Q", "R", "S", "T", "U", "V", "W", "X", "Y", "Z">>

\* str.isspace, str.isdigit, str.isalnum on the characters of the model.
isspace(c) == c \in {" ", "\t", "\n"}
isdigit(c) == c \in Range(Digits)
isalnum(c) == c \in Range(Digits) \cup Range(LowerCase) \cup Range(UpperCase)

\* str.upper and str.lower, character by character.
upper_char(c) ==
    IF c \in Range(LowerCase)
    THEN UpperCase[CHOOSE i \in 1..Len(LowerCase) : LowerCase[i] = c] ELSE c
lower_char(c) ==
    IF c \in Range(UpperCase)
    THEN LowerCase[CHOOSE i \in 1..Len(UpperCase) : UpperCase[i] = c] ELSE c
upper(word) == [i \in 1..Len(word) |-> upper_char(word[i])]
lower(word) == [i \in 1..Len(word) |-> lower_char(word[i])]

\* The str made of the characters.
RECURSIVE Text(_)
Text(chars) == IF chars = <<>> THEN "" ELSE Head(chars) \o Text(Tail(chars))

IndexError == [type |-> "IndexError", field |-> "", message |-> "string index out of range"]

ExpressionTokenizer(expression) ==
    [expression |-> expression, position |-> 0, length |-> Len(expression)]

\* self.expression[i], for 0 <= i < self.length.
CharAt(self, i) == self.expression[i + 1]

\* self.expression[a:b], for 0 <= a: a slice stops at the end of the text.
Slice(self, a, b) ==
    SubSeq(self.expression, a + 1, IF b < self.length THEN b ELSE self.length)

\* self.expression[max(0, self.position-10):self.position+10]
Context(self) ==
    Text(Slice(self, IF self.position < 10 THEN 0 ELSE self.position - 10,
               self.position + 10))

IsWordChar(c) == isalnum(c) \/ c = "_"

\* ExpressionTokenizer._skip_whitespace
RECURSIVE _skip_whitespace(_)
_skip_whitespace(self) ==
    IF self.position < self.length /\ isspace(CharAt(self, self.position))
    THEN _skip_whitespace([self EXCEPT !.position = @ + 1])
    ELSE self

\* The end of the word that starts at position end: the while loop of
\* _peek_word and of _read_field.
RECURSIVE WordEnd(_, _)
WordEnd(self, end) ==
    IF end < self.length /\ IsWordChar(CharAt(self, end))
    THEN WordEnd(self, end + 1)
    ELSE end

\* ExpressionTokenizer._peek_word
_peek_word(self) == Slice(self, self.position, WordEnd(self, self.position))

\* The operators in the order in which _try_read_operator tries them.
OperatorsTried ==
    <<<<"n", "o", "t", "_", "c", "o", "n", "t", "a", "i", "n", "s">>,
      <<"n", "o", "t", "_", "i", "n">>,
      <<"=", "=">>,
      <<"!", "=">>,
      <<">", "=">>,
      <<"<", "=">>,
      <<"c", "o", "n", "t", "a", "i", "n", "s">>,
      <<"i", "n">>>>

WordOperators ==
    {<<"i", "n">>,
     <<"c", "o", "n", "t", "a", "i", "n", "s">>,
     <<"n", "o", "t", "_", "i", "n">>,
     <<"n", "o", "t", "_", "c", "o", "n", "t", "a", "i", "n", "s">>}

\* An operator reader that takes a word-shaped operator wherever the text
\* starts with it.
RECURSIVE PrefixOperatorLoop(_, _)
PrefixOperatorLoop(self, i) ==
    IF i > Len(OperatorsTried)
    THEN IF self.position < self.length /\ CharAt(self, self.position) = "="
         THEN Result(Raise(ValueError("Single '=' operator")), self)
         ELSE IF self.position < self.length /\ CharAt(self, self.position) \in {">", "<"}
         THEN Result(Ok(Some(CharAt(self, self.position))),
                     [self EXCEPT !.position = @ + 1])
         ELSE Result(Ok(Nothing), self)
    ELSE IF Slice(self, self.position, self.position + Len(OperatorsTried[i]))
                = OperatorsTried[i]
    THEN Result(Ok(Some(Text(OperatorsTried[i]))),
                [self EXCEPT !.position = @ + Len(OperatorsTried[i])])
    ELSE PrefixOperatorLoop(self, i + 1)

\* ExpressionTokenizer._try_read_operator from the i-th operator of its for
\* loop on: Some(op) with the position behind the operator, Nothing (the
\* source's None) with the position unchanged, or the ValueError for a
\* single '='.
RECURSIVE _operator_loop(_, _)
_operator_loop(self, i) ==
    LET op == OperatorsTried[i]
        next_pos == self.position + Len(op)
    IN  IF i > Len(OperatorsTried)
        THEN IF self.position < self.length /\ CharAt(self, self.position) = "="
             THEN Result(Raise(ValueError(
                      "Single '=' operator at position " \o ToString(self.position)
                          \o ". Use '==' for equality comparison. Context: ..."
                          \o Context(self) \o "...")), self)
             ELSE IF self.position < self.length
                        /\ CharAt(self, self.position) \in {">", "<"}
             THEN Result(Ok(Some(CharAt(self, self.position))),
                         [self EXCEPT !.position = @ + 1])
             ELSE Result(Ok(Nothing), self)
        ELSE IF Slice(self, self.position, next_pos) = op
        THEN IF /\ op \in WordOperators
                /\ next_pos < self.length
                /\ IsWordChar(CharAt(self, next_pos))
             THEN _operator_loop(self, i + 1)
             ELSE Result(Ok(Some(Text(op))), [self EXCEPT !.position = next_pos])
        ELSE _operator_loop(self, i + 1)

_try_read_operator(self) == _operator_loop(self, 1)

\* The position at which the while loop of _read_string stops.
RECURSIVE StringEnd(_, _, _)
StringEnd(self, quote, position) ==
    IF position < self.length /\ CharAt(self, position) # quote
    THEN IF CharAt(self, position) = "\\"
         THEN StringEnd(self, quote, position + 2)
         ELSE StringEnd(self, quote, position + 1)
    ELSE position

\* ExpressionTokenizer._read_string, called at a quote character.
_read_string(self) ==
    LET found(end) == Result(Ok(Str_(Text(Slice(self, self.position + 1, end)))),
                             [self EXCEPT !.position = end + 1])
    IN  found(StringEnd(self, CharAt(self, self.position), self.position + 1))

\* The position at which the while loop of _read_number stops.
RECURSIVE NumberEnd(_, _)
NumberEnd(self, position) ==
    IF position < self.length
          /\ (isdigit(CharAt(self, position)) \/ CharAt(self, position) = ".")
    THEN NumberEnd(self, position + 1)
    ELSE position

\* The number written by a sequence of digits.
RECURSIVE DecimalValue(_)
DecimalValue(digits) ==
    IF digits = <<>> THEN 0
    ELSE 10 * DecimalValue(SubSeq(digits, 1, Len(digits) - 1))
            + (CHOOSE d \in 0..9 : Digits[d + 1] = digits[Len(digits)])

\* A float, kept as mantissa / 10^exponent without trailing zeros.
RECURSIVE Float_(_, _)
Float_(mantissa, exponent) ==
    IF exponent > 0 /\ mantissa % 10 = 0
    THEN Float_(mantissa \div 10, exponent - 1)
    ELSE [t |-> "float", v |-> <<mantissa, exponent>>]

\* int(value_str) and float(value_str) for the strings _read_number cuts out:
\* an optional '-', then digits and dots.
Number(value_str) ==
    LET negative == value_str # <<>> /\ value_str[1] = "-"
        unsigned == IF negative THEN Tail(value_str) ELSE value_str
        dots == {i \in 1..Len(unsigned) : unsigned[i] = "."}
        digits == SelectSeq(unsigned, isdigit)
        sign == IF negative THEN -1 ELSE 1
    IN  IF dots = {}
        THEN IF digits = <<>>
             THEN Raise(ValueError("invalid literal for int() with base 10: '"
                            \o Text(value_str) \o "'"))
             ELSE Ok(Int_(sign * DecimalValue(digits)))
        ELSE IF Cardinality(dots) > 1 \/ digits = <<>>
             THEN Raise(ValueError("could not convert string to float: '"
                            \o Text(value_str) \o "'"))
             ELSE Ok(Float_(sign * DecimalValue(digits),
                            Len(unsigned) - (CHOOSE i \in dots : TRUE)))

\* ExpressionTokenizer._read_number, called at a digit or at '-'.
_read_number(self) ==
    LET found(end) == Result(Number(Slice(self, self.position, end)),
                             [self EXCEPT !.position = end])
    IN  found(NumberEnd(self, IF CharAt(self, self.position) = "-"
                              THEN self.position + 1 ELSE self.position))

\* str.strip
RECURSIVE strip(_)
strip(chars) ==
    IF chars = <<>> THEN chars
    ELSE IF isspace(Head(chars)) THEN strip(Tail(chars))
    ELSE IF isspace(chars[Len(chars)]) THEN strip(SubSeq(chars, 1, Len(chars) - 1))
    ELSE chars

\* The position at which the inner while loop of _read_array stops.
RECURSIVE ElementEnd(_, _)
ElementEnd(self, position) ==
    IF position < self.length /\ CharAt(self, position) \notin {",", "]"}
    THEN ElementEnd(self, position + 1)
    ELSE position

\* The value _read_array appends for a bare element.
BareElement(chars) ==
    LET value == strip(chars)
        value_lower == Text(lower(value))
    IN  IF value_lower = "true" THEN Bool_(TRUE)
        ELSE IF value_lower = "false" THEN Bool_(FALSE)
        ELSE IF value_lower = "null" THEN None
        ELSE Str_(Text(value))

\* The while loop of ExpressionTokenizer._read_array, with the values read
\* so far. The test for ']' reads self.expression[self.position] without a
\* test of the position.
RECURSIVE _array_loop(_, _)
_array_loop(self, values) ==
    LET after(self2) ==
            IF self2.position < self2.length /\ CharAt(self2, self2.position) = ","
            THEN [self2 EXCEPT !.position = @ + 1] ELSE self2
        appended(read) ==
            IF read.outcome.kind = "raise" THEN read
            ELSE _array_loop(after(_skip_whitespace(read.self)),
                             Append(values, read.outcome.value))
        bare(self1, end) ==
            Result(Ok(BareElement(Slice(self1, self1.position, end))),
                   [self1 EXCEPT !.position = end])
        element(self1) ==
            IF self1.position >= self1.length
            THEN Result(Raise(IndexError), self1)
            ELSE IF CharAt(self1, self1.position) = "]"
            THEN Result(Ok(List_(values)), [self1 EXCEPT !.position = @ + 1])
            ELSE IF CharAt(self1, self1.position) \in {"\"", "'"}
            THEN appended(_read_string(self1))
            ELSE IF isdigit(CharAt(self1, self1.position))
                        \/ CharAt(self1, self1.position) = "-"
            THEN appended(_read_number(self1))
            ELSE appended(bare(self1, ElementEnd(self1, self1.position)))
    IN  IF self.position < self.length
        THEN element(_skip_whitespace(self))
        ELSE Result(Ok(List_(values)), self)

\* ExpressionTokenizer._read_array, called at '['.
_read_array(self) == _array_loop([self EXCEPT !.position = @ + 1], <<>>)

\* ExpressionTokenizer._read_field
_read_field(self) ==
    Result(Ok(Slice(self, self.position, WordEnd(self, self.position))),
           [self EXCEPT !.position = WordEnd(self, self.position)])

\* The while loop of ExpressionTokenizer.tokenize, with the tokens appended
\* so far, and the Eof token after it.
RECURSIVE _tokenize_loop(_, _)
_tokenize_loop(self0, tokens_) ==
    LET value_token(read) ==
            IF read.outcome.kind = "raise" THEN read
            ELSE _tokenize_loop(read.self,
                     Append(tokens_, Token("VALUE", read.outcome.value, read.self.position)))
        word_token(self, value) ==
            _tokenize_loop([self EXCEPT !.position = @ + Len(_peek_word(self))],
                           Append(tokens_, Token("VALUE", value, self.position)))
        field_token(self, read) ==
            IF read.outcome.value = <<>>
            THEN Result(Raise(ValueError(
                     "Unexpected character '" \o CharAt(self, self.position)
                         \o "' at position " \o ToString(self.position)
                         \o ". Context: ..." \o Context(self) \o "...")), self)
            ELSE _tokenize_loop(read.self,
                     Append(tokens_, Token("FIELD", Str_(Text(read.outcome.value)),
                                           read.self.position - Len(read.outcome.value))))
        literal(self) ==
            IF CharAt(self, self.position) \in {"\"", "'"}
            THEN value_token(_read_string(self))
            ELSE IF CharAt(self, self.position) = "["
            THEN value_token(_read_array(self))
            ELSE IF isdigit(CharAt(self, self.position)) \/ CharAt(self, self.position) = "-"
            THEN value_token(_read_number(self))
            ELSE IF Text(lower(_peek_word(self))) \in {"true", "false"}
            THEN word_token(self, Bool_(Text(lower(_peek_word(self))) = "true"))
            ELSE IF Text(lower(_peek_word(self))) = "null"
            THEN word_token(self, None)
            ELSE field_token(self, _read_field(self))
        operator_token(self, operator) ==
            IF operator.outcome.kind = "raise" THEN operator
            ELSE IF operator.outcome.value # Nothing
            THEN _tokenize_loop(operator.self,
                     Append(tokens_, Token("OPERATOR", Str_(operator.outcome.value[1]),
                                operator.self.position - Len(operator.outcome.value[1]))))
            ELSE literal(self)
        body(self) ==
            IF self.position >= self.length
            THEN Result(Ok(Append(tokens_, Token("EOF", None, self.position))), self)
            ELSE IF CharAt(self, self.position) = "("
            THEN _tokenize_loop([self EXCEPT !.position = @ + 1],
                                Append(tokens_, Token("LPAREN", Str_("("), self.position)))
            ELSE IF CharAt(self, self.position) = ")"
            THEN _tokenize_loop([self EXCEPT !.position = @ + 1],
                                Append(tokens_, Token("RPAREN", Str_(")"), self.position)))
            ELSE IF Text(upper(_peek_word(self))) = "AND"
            THEN _tokenize_loop([self EXCEPT !.position = @ + 3],
                                Append(tokens_, Token("AND", Str_("AND"), self.position)))
            ELSE IF Text(upper(_peek_word(self))) = "OR"
            THEN _tokenize_loop([self EXCEPT !.position = @ + 2],
                                Append(tokens_, Token("OR", Str_("OR"), self.position)))
            ELSE operator_token(self, _try_read_operator(self))
    IN  IF self0.position < self0.length
        THEN body(_skip_whitespace(self0))
        ELSE Result(Ok(Append(tokens_, Token("EOF", None, self0.position))), self0)

\* ExpressionTokenizer.tokenize: the tokens, or the error raised.
ExpressionTokenizer_tokenize(self) == _tokenize_loop(self, <<>>).outcome

(***************************************************************************)
(* SpecText: one call of parse_expression on a text.                       *)
(***************************************************************************)
\* The characters of a str of the model's texts.
Chars(s) ==
    CASE s = "" -> <<>>
      [] s = " " -> <<" ">>
      [] s = " AND" -> <<" ", "A", "N", "D">>
      [] s = " OR b" -> <<" ", "O", "R", " ", "b">>
      [] s = "'s'" -> <<"'", "s", "'">>
      [] s = "(" -> <<"(">>
      [] s = ")" -> <<")">>
      [] s = "1" -> <<"1">>
      [] s = "=" -> <<"=">>
      [] s = "==" -> <<"=", "=">>
      [] s = ">" -> <<">">>
      [] s = ">=" -> <<">", "=">>
      [] s = "[1, " -> <<"[", "1", ",", " ">>
      [] s = "[1, 2]" -> <<"[", "1", ",", " ", "2", "]">>
      [] s = "a" -> <<"a">>
      [] s = "a == 1 " -> <<"a", " ", "=", "=", " ", "1", " ">>
      [] s = "a == 1 AND " -> <<"a", " ", "=", "=", " ", "1", " ", "A", "N", "D", " ">>
      [] s = "b" -> <<"b">>
      [] s = "container" -> <<"c", "o", "n", "t", "a", "i", "n", "e", "r">>
      [] s = "contains" -> <<"c", "o", "n", "t", "a", "i", "n", "s">>
      [] s = "im_not_in_class" -> <<"i", "m", "_", "n", "o", "t", "_", "i", "n", "_", "c", "l", "a", "s", "s">>
      [] s = "in" -> <<"i", "n">>
      [] s = "income" -> <<"i", "n", "c", "o", "m", "e">>
      [] s = "insurance_type" -> <<"i", "n", "s", "u", "r", "a", "n", "c", "e", "_", "t", "y", "p", "e">>
      [] s = "not_contains" -> <<"n", "o", "t", "_", "c", "o", "n", "t", "a", "i", "n", "s">>
      [] s = "not_in" -> <<"n", "o", "t", "_", "i", "n">>

\* The texts are written prefix, left operand, spaces, operator, spaces,
\* right operand, suffix, each part possibly empty.
Prefixes == {"", "(", "a == 1 AND ", "a == 1 "}
Lefts == {"", "a", "in", "income", "container", "insurance_type", "im_not_in_class"}
OperatorTexts == {"", "==", "=", ">", ">=", "in", "contains", "not_in", "not_contains"}
Rights == {"", "1", "b", "'s'", "[1, 2]", "[1, "}
Suffixes == {"", ")", " AND", " OR b"}

RECURSIVE Spaces(_)
Spaces(n) == IF n = 0 THEN <<>> ELSE <<" ">> \o Spaces(n - 1)

Texts ==
    {Chars(prefix) \o Chars(left) \o Spaces(before) \o Chars(operator)
            \o Spaces(after) \o Chars(right) \o Chars(suffix) :
        prefix \in Prefixes, left \in Lefts, before \in 0..MaxSpaces,
        operator \in OperatorTexts, after \in 0..MaxSpaces,
        right \in Rights, suffix \in Suffixes}

InitText ==
    /\ text \in Texts
    /\ tokenize_result = NotRun
    /\ parse_expression_result = NotRun
    /\ tokens = Unused
    /\ parse_result = Unused
    /\ rule = Unused
    /\ payload = Unused
    /\ ast = Unused
    /\ plain_result = Unused
    /\ detailed_result = Unused
    /\ evaluation_result = Unused
    /\ store = Unused
    /\ rule_ids = Unused
    /\ response = Unused
    /\ file = Unused
    /\ call = Unused
    /\ call_result = Unused
    /\ evaluations = Unused
    /\ lists = Unused
    /\ threads = Unused

\* parse_expression(text): the tokenizer's outcome, and the outcome of
\* the call, which is the tokenizer's error or what the parser gives for the
\* tokens.
ParseExpression ==
    /\ parse_expression_result = NotRun
    /\ LET parse_tokens(tokenized) ==
               /\ tokenize_result' = tokenized
               /\ parse_expression_result' = IF tokenized.kind = "raise" THEN tokenized
                   ELSE parse(ExpressionParser(tokenized.value)).outcome
       IN  parse_tokens(ExpressionTokenizer_tokenize(ExpressionTokenizer(text)))
    /\ UNCHANGED <<threadVars, ruleVars, text, tokens, parse_result, rule, payload, ast,
                   plain_result, detailed_result, evaluation_result, store, rule_ids, response>>

NextText == ParseExpression

SpecText == InitText /\ [][NextText]_vars

(***************************************************************************)
(* Rule.from_dict / to_dict (models.py), FileRuleRepository                *)
(* (file_repository.py) and RuleService (services.py).                     *)
(* A dict is a function from its keys; JSON null is None. The rules file   *)
(* is the list of dicts json.dump wrote.                                   *)
(***************************************************************************)
KeyError(key) == [type |-> "KeyError", field |-> "", message |-> "'" \o key \o "'"]

RuleValidationException(msg) ==
    [type |-> "RuleValidationException", field |-> "", message |-> msg]

\* OperatorType(value): the member of the enum, or the ValueError.
OperatorType(value) ==
    IF value \in Operators THEN Ok(value)
    ELSE Raise(ValueError("'" \o value \o "' is not a valid OperatorType"))

\* Predicate.from_dict
Predicate_from_dict(data) ==
    LET built(operator) ==
            IF operator.kind = "raise" THEN operator
            ELSE IF "value" \notin DOMAIN data THEN Raise(KeyError("value"))
            ELSE Ok(Predicate(data.field, operator.value, data.value))
    IN  IF "field" \notin DOMAIN data THEN Raise(KeyError("field"))
        ELSE IF "operator" \notin DOMAIN data THEN Raise(KeyError("operator"))
        ELSE built(OperatorType(data.operator))

\* Predicate.to_dict
Predicate_to_dict(predicate) ==
    [field |-> predicate.field, operator |-> predicate.operator, value |-> predicate.value]

\* [Predicate.from_dict(p) for p in predicates], from the i-th dict on.
RECURSIVE _predicates_from_dicts(_, _, _)
_predicates_from_dicts(predicates, i, objects) ==
    LET appended(predicate) ==
            IF predicate.kind = "raise" THEN predicate
            ELSE _predicates_from_dicts(predicates, i + 1, Append(objects, predicate.value))
    IN  IF i > Len(predicates) THEN Ok(objects)
        ELSE appended(Predicate_from_dict(predicates[i]))

\* dict.get(key): an absent key and a null both give None.
DictGet(data, key) ==
    IF key \in DOMAIN data /\ data[key] # None THEN Some(data[key]) ELSE Nothing

\* Rule.from_dict: the Rule, or the error raised.
Rule_from_dict(data) ==
    LET constructed(predicates, id) ==
            IF id.kind = "raise" THEN id
            ELSE IF "name" \notin DOMAIN data THEN Raise(KeyError("name"))
            ELSE IF "description" \notin DOMAIN data THEN Raise(KeyError("description"))
            ELSE Rule(id.value, data.name, data.description, predicates,
                      DictGet(data, "expression"),
                      IF "logical_operator" \in DOMAIN data
                      THEN data.logical_operator ELSE "AND")
        with_predicates(predicates) ==
            IF predicates.kind = "raise" THEN predicates
            ELSE IF "id" \notin DOMAIN data THEN Raise(KeyError("id"))
            ELSE constructed(Some(predicates.value), UUID(data.id))
    IN  IF "predicates" \in DOMAIN data
        THEN IF data.predicates = None
             THEN Raise(TypeError("'NoneType' object is not iterable"))
             ELSE with_predicates(_predicates_from_dicts(data.predicates, 1, <<>>))
        ELSE IF "id" \notin DOMAIN data THEN Raise(KeyError("id"))
        ELSE constructed(Nothing, UUID(data.id))

\* Rule.to_dict
Rule_to_dict(r) ==
    LET predicates == [i \in 1..Len(r.predicates[1]) |-> Predicate_to_dict(r.predicates[1][i])]
    IN  IF r.predicates # Nothing /\ r.expression # Nothing
        THEN [id |-> r.id, name |-> r.name, description |-> r.description,
              predicates |-> predicates, logical_operator |-> r.logical_operator,
              expression |-> r.expression[1]]
        ELSE IF r.predicates # Nothing
        THEN [id |-> r.id, name |-> r.name, description |-> r.description,
              predicates |-> predicates, logical_operator |-> r.logical_operator]
        ELSE IF r.expression # Nothing
        THEN [id |-> r.id, name |-> r.name, description |-> r.description,
              expression |-> r.expression[1]]
        ELSE [id |-> r.id, name |-> r.name, description |-> r.description]

\* FileRuleRepository._read_rules: [Rule.from_dict(d) for d in data], from the
\* i-th dict of the file on.
RECURSIVE _read_rules_from(_, _, _)
_read_rules_from(file_, i, rules) ==
    LET appended(r) ==
            IF r.kind = "raise" THEN r
            ELSE _read_rules_from(file_, i + 1, Append(rules, r.value))
    IN  IF i > Len(file_) THEN Ok(rules)
        ELSE appended(Rule_from_dict(file_[i]))

_read_rules(file_) == _read_rules_from(file_, 1, <<>>)

\* FileRuleRepository._write_rules: the file written.
_write_rules(rules) == [i \in 1..Len(rules) |-> Rule_to_dict(rules[i])]

\* FileRuleRepository.create: what it returns, and the file afterwards.
FileRuleRepository_create(file_, r) ==
    LET written(rules) ==
            IF rules.kind = "raise" THEN [outcome |-> rules, file |-> file_]
            ELSE [outcome |-> Ok(r), file |-> _write_rules(Append(rules.value, r))]
    IN  written(_read_rules(file_))

\* FileRuleRepository.update: the first rule with the id is replaced; the
\* file is written only when there is one.
FileRuleRepository_update(file_, r) ==
    LET written(rules) ==
            IF rules.kind = "raise" THEN [outcome |-> rules, file |-> file_]
            ELSE LET found == {i \in 1..Len(rules.value) : rules.value[i].id = r.id}
                     first == CHOOSE i \in found : \A j \in found : i <= j
                 IN  IF found = {} THEN [outcome |-> Ok(r), file |-> file_]
                     ELSE [outcome |-> Ok(r),
                           file |-> _write_rules([rules.value EXCEPT ![first] = r])]
    IN  written(_read_rules(file_))

\* parse_expression on a text given by its characters: the AST, or the error
\* of the tokenizer or of the parser.
parse_expression_text(chars) ==
    LET parse_tokens(tokenized) ==
            IF tokenized.kind = "raise" THEN tokenized
            ELSE parse(ExpressionParser(tokenized.value)).outcome
    IN  parse_tokens(ExpressionTokenizer_tokenize(ExpressionTokenizer(chars)))

\* name.strip() and expression.strip() are empty.
IsBlankName(name) == name \in {"", " "}
IsBlank(chars) == strip(chars) = <<>>

\* The loop of _validate_rule_data over the predicate dicts, from the i-th on.
RECURSIVE _validate_predicates(_, _)
_validate_predicates(predicates, i) ==
    IF i > Len(predicates) THEN Ok(None)
    ELSE IF \/ "field" \notin DOMAIN predicates[i]
            \/ "operator" \notin DOMAIN predicates[i]
            \/ "value" \notin DOMAIN predicates[i]
    THEN Raise(RuleValidationException("Each predicate must have field, operator, and value"))
    ELSE IF OperatorType(predicates[i].operator).kind = "raise"
    THEN Raise(RuleValidationException("Invalid operator: " \o predicates[i].operator))
    ELSE _validate_predicates(predicates, i + 1)

\* A validation that lets an expression through without parsing it.
UnparsedValidation(name, predicates, expression, logical_operator) ==
    IF name = "" \/ IsBlankName(name)
    THEN Raise(RuleValidationException("Rule name cannot be empty"))
    ELSE IF predicates = Nothing /\ expression = Nothing
    THEN Raise(RuleValidationException("Rule must have either predicates or expression"))
    ELSE IF predicates # Nothing /\ expression # Nothing
    THEN Raise(RuleValidationException("Rule cannot have both predicates and expression"))
    ELSE IF logical_operator \notin {"AND", "OR"}
    THEN Raise(RuleValidationException("logical_operator must be 'AND' or 'OR'"))
    ELSE IF predicates # Nothing /\ Len(predicates[1]) = 0
    THEN Raise(RuleValidationException("Rule must have at least one predicate"))
    ELSE IF predicates # Nothing THEN _validate_predicates(predicates[1], 1)
    ELSE Ok(None)

\* A validation that lets an empty predicate list through.
EmptyListValidation(name, predicates, expression, logical_operator) ==
    IF name = "" \/ IsBlankName(name)
    THEN Raise(RuleValidationException("Rule name cannot be empty"))
    ELSE IF predicates = Nothing /\ expression = Nothing
    THEN Raise(RuleValidationException("Rule must have either predicates or expression"))
    ELSE IF predicates # Nothing /\ expression # Nothing
    THEN Raise(RuleValidationException("Rule cannot have both predicates and expression"))
    ELSE IF logical_operator \notin {"AND", "OR"}
    THEN Raise(RuleValidationException("logical_operator must be 'AND' or 'OR'"))
    ELSE IF expression # Nothing /\ parse_expression_text(expression[1]).kind = "raise"
    THEN Raise(RuleValidationException("Invalid expression syntax"))
    ELSE IF predicates # Nothing THEN _validate_predicates(predicates[1], 1)
    ELSE Ok(None)

\* RuleService._validate_rule_data: None, or the RuleValidationException.
_validate_rule_data(name, predicates, expression, logical_operator) ==
    LET second_parse(parsed) ==
            IF parsed.kind = "raise"
            THEN Raise(RuleValidationException(
                     "Invalid expression syntax: " \o parsed.exc.message))
            ELSE Ok(None)
        expression_checked ==
            IF expression = Nothing THEN Ok(None)
            ELSE IF IsBlank(expression[1])
            THEN Raise(RuleValidationException("Expression cannot be empty"))
            ELSE second_parse(parse_expression_text(expression[1]))
        predicates_checked(validated) ==
            IF validated.kind = "raise" THEN validated ELSE expression_checked
        first_parse(parsed) ==
            IF parsed.kind = "raise" /\ parsed.exc.type = "ValueError"
            THEN Raise(RuleValidationException(
                     "Invalid expression syntax: " \o parsed.exc.message))
            ELSE IF parsed.kind = "raise"
            THEN Raise(RuleValidationException(
                     "Failed to parse expression: " \o parsed.exc.message))
            ELSE IF predicates = Nothing THEN expression_checked
            ELSE IF Len(predicates[1]) = 0
            THEN Raise(RuleValidationException("Rule must have at least one predicate"))
            ELSE predicates_checked(_validate_predicates(predicates[1], 1))
    IN  IF name = "" \/ IsBlankName(name)
        THEN Raise(RuleValidationException("Rule name cannot be empty"))
        ELSE IF predicates = Nothing /\ expression = Nothing
        THEN Raise(RuleValidationException("Rule must have either predicates or expression"))
        ELSE IF predicates # Nothing /\ expression # Nothing
        THEN Raise(RuleValidationException("Rule cannot have both predicates and expression"))
        ELSE IF logical_operator \notin {"AND", "OR"}
        THEN Raise(RuleValidationException(
                 "logical_operator must be 'AND' or 'OR', got: " \o logical_operator))
        ELSE IF expression # Nothing THEN first_parse(parse_expression_text(expression[1]))
        ELSE first_parse(Ok(None))

\* The statements of create_rule and update_rule after the validation:
\* predicate_objects, then Rule(...).
_build_rule(id, name, description, predicates, expression, logical_operator) ==
    LET constructed(predicate_objects) ==
            IF predicate_objects.kind = "raise" THEN predicate_objects
            ELSE Rule(id, name, description,
                      IF predicates # Nothing /\ Len(predicates[1]) > 0
                      THEN Some(predicate_objects.value) ELSE Nothing,
                      expression, logical_operator)
    IN  IF predicates # Nothing /\ Len(predicates[1]) > 0
        THEN constructed(_predicates_from_dicts(predicates[1], 1, <<>>))
        ELSE constructed(Ok(<<>>))

\* RuleService.create_rule, id being what uuid4() gives: what it returns or
\* raises, and the file afterwards.
create_rule(file_, id, name, description, predicates, expression, logical_operator) ==
    LET created(r) ==
            IF r.kind = "raise" THEN [outcome |-> r, file |-> file_]
            ELSE FileRuleRepository_create(file_, r.value)
        validated(v) ==
            IF v.kind = "raise" THEN [outcome |-> v, file |-> file_]
            ELSE created(_build_rule(id, name, description, predicates, expression,
                                     logical_operator))
    IN  validated(_validate_rule_data(name, predicates, expression, logical_operator))

\* RuleService.update_rule
update_rule(file_, rule_id, name, description, predicates, expression, logical_operator) ==
    LET updated(r) ==
            IF r.kind = "raise" THEN [outcome |-> r, file |-> file_]
            ELSE FileRuleRepository_update(file_, r.value)
        validated(v) ==
            IF v.kind = "raise" THEN [outcome |-> v, file |-> file_]
            ELSE updated(_build_rule(rule_id, name, description, predicates, expression,
                                     logical_operator))
        looked_up(rules) ==
            IF rules.kind = "raise" THEN [outcome |-> rules, file |-> file_]
            ELSE IF get_by_id(rules.value, rule_id) = Nothing
            THEN [outcome |-> Raise(RuleNotFoundException(rule_id)), file |-> file_]
            ELSE validated(_validate_rule_data(name, predicates, expression,
                                               logical_operator))
    IN  looked_up(_read_rules(file_))

(***************************************************************************)
(* SpecRules: rules constructed, read from dicts, and created and updated  *)
(* through RuleService on a repository whose file starts empty.            *)
(***************************************************************************)
RuleNames == {"R", " "}

PredicateDicts ==
    [ok |-> [field |-> "age", operator |-> ">=", value |-> Int_(18)],
     bad_operator |-> [field |-> "age", operator |-> "~=", value |-> Int_(18)],
     no_value |-> [field |-> "age", operator |-> ">="]]

\* The predicates argument: absent, empty, one predicate, and lists with a
\* predicate of an unknown operator or without its value.
PredicateArguments ==
    {Nothing, Some(<<>>), Some(<<PredicateDicts.ok>>),
     Some(<<PredicateDicts.ok, PredicateDicts.bad_operator>>),
     Some(<<PredicateDicts.no_value>>)}

\* The expression argument: absent, 'a == 1', 'a == 1 AND ' (no comparison
\* after AND), 'a = 1' (single '=') and 'a in [1, ' (the array is cut off).
GoodExpression == <<"a", " ", "=", "=", " ", "1">>

ExpressionArguments ==
    {Nothing,
     Some(GoodExpression),
     Some(<<"a", " ", "=", "=", " ", "1", " ", "A", "N", "D", " ">>),
     Some(<<"a", " ", "=", " ", "1">>),
     Some(<<"a", " ", "i", "n", " ", "[", "1", ",", " ">>)}

LogicalOperators == {"AND", "OR", "XOR"}

\* The arguments of Rule(...), create_rule and update_rule: predicates or an
\* expression, or both 'a == 1' and a predicate, or neither; the blank name
\* comes with arguments that are valid otherwise.
RuleArguments ==
    {args \in [name : RuleNames, description : {""}, predicates : PredicateArguments,
               expression : ExpressionArguments, logical_operator : LogicalOperators] :
        /\ \/ args.predicates = Nothing
           \/ args.expression = Nothing
           \/ /\ args.predicates = Some(<<PredicateDicts.ok>>)
              /\ args.expression = Some(GoodExpression)
        /\ \/ args.name = "R"
           \/ /\ args.predicates \in {Nothing, Some(<<PredicateDicts.ok>>)}
              /\ args.expression \in {Nothing, Some(GoodExpression)}
              /\ args.predicates = Nothing \/ args.expression = Nothing
              /\ args.logical_operator = "AND"}

\* The ids uuid4() gives, and the ids update_rule is asked for.
NewIds == {"id1", "id2"}
UpdatedIds == {"id1", "id3"}

\* The dicts given to Rule.from_dict.
RuleDicts ==
    {[id |-> "id1", name |-> "R", description |-> ""],
     [id |-> "id1", name |-> "R", description |-> "", predicates |-> <<>>],
     [id |-> "id1", name |-> "R", description |-> "", predicates |-> None,
      expression |-> <<"a", " ", "=", "=", " ", "1">>],
     [id |-> "id1", name |-> "R", description |-> "",
      predicates |-> <<PredicateDicts.ok>>],
     [id |-> "id1", name |-> "R", description |-> "",
      predicates |-> <<PredicateDicts.ok>>, logical_operator |-> "OR"],
     [id |-> "id1", name |-> "R", description |-> "",
      predicates |-> <<PredicateDicts.ok>>, logical_operator |-> "XOR"],
     [id |-> "id1", name |-> "R", description |-> "",
      predicates |-> <<PredicateDicts.ok>>, expression |-> None],
     [id |-> "id1", name |-> "R", description |-> "",
      predicates |-> <<PredicateDicts.ok>>, expression |-> <<"a", " ", "=", "=", " ", "1">>],
     [id |-> "id1", name |-> "R", description |-> "",
      predicates |-> <<PredicateDicts.bad_operator>>],
     [id |-> "id1", name |-> "R", description |-> "", expression |-> None],
     [id |-> "id1", name |-> "R", description |-> "", expression |-> <<"a", " ", "=", "=", " ", "1">>],
     [id |-> "id1", name |-> "R", description |-> "", expression |-> <<"a", " ", "=", " ", "1">>,
      logical_operator |-> "OR"],
     [id |-> "bad", name |-> "R", description |-> "", expression |-> <<"a", " ", "=", "=", " ", "1">>],
     [id |-> "id1", description |-> "", expression |-> <<"a", " ", "=", "=", " ", "1">>]}

NoCall == [op |-> "none"]

InitRules ==
    /\ file = <<>>
    /\ call = NoCall
    /\ call_result = NotRun
    /\ evaluations = Unused
    /\ lists = Unused
    /\ threads = Unused
    /\ text = Unused
    /\ tokenize_result = Unused
    /\ parse_expression_result = Unused
    /\ tokens = Unused
    /\ parse_result = Unused
    /\ rule = Unused
    /\ payload = Unused
    /\ ast = Unused
    /\ plain_result = Unused
    /\ detailed_result = Unused
    /\ evaluation_result = Unused
    /\ store = Unused
    /\ rule_ids = Unused
    /\ response = Unused

otherVars == <<threadVars, textVars, tokens, parse_result, rule, payload, ast, plain_result,
               detailed_result, evaluation_result, store, rule_ids, response>>

\* Rule(id, name, description, predicates, expression, logical_operator),
\* the predicates being Predicate objects.
ConstructRule ==
    /\ \E args \in RuleArguments :
           /\ args.predicates \in {Nothing, Some(<<>>), Some(<<PredicateDicts.ok>>)}
           /\ call' = [op |-> "Rule", args |-> args]
           /\ call_result' = Rule("id1", args.name, args.description, args.predicates,
                               args.expression, args.logical_operator)
    /\ UNCHANGED <<file, otherVars>>

\* Rule.from_dict(data)
FromDict ==
    /\ \E data \in RuleDicts :
           /\ call' = [op |-> "from_dict", data |-> data]
           /\ call_result' = Rule_from_dict(data)
    /\ UNCHANGED <<file, otherVars>>

\* RuleService.create_rule(name, description, predicates, expression,
\* logical_operator)
CreateRule ==
    /\ Len(file) < MaxRules
    /\ \E args \in RuleArguments, id \in NewIds :
           /\ \A i \in 1..Len(file) : file[i].id # id
           /\ LET done(r) == /\ call_result' = r.outcome
                             /\ file' = r.file
              IN  done(create_rule(file, id, args.name, args.description, args.predicates,
                                   args.expression, args.logical_operator))
           /\ call' = [op |-> "create_rule", args |-> args, id |-> id]
    /\ UNCHANGED otherVars

\* RuleService.update_rule(rule_id, name, description, predicates,
\* expression, logical_operator)
UpdateRule ==
    /\ \E args \in RuleArguments, rule_id \in UpdatedIds :
           /\ LET done(r) == /\ call_result' = r.outcome
                             /\ file' = r.file
              IN  done(update_rule(file, rule_id, args.name, args.description,
                                   args.predicates, args.expression, args.logical_operator))
           /\ call' = [op |-> "update_rule", args |-> args, id |-> rule_id]
    /\ UNCHANGED otherVars

NextRules == ConstructRule \/ FromDict \/ CreateRule \/ UpdateRule

SpecRules == InitRules /\ [][NextRules]_vars

(***************************************************************************)
(* Properties of the evaluators.                                           *)
(***************************************************************************)
\* The Comparison nodes of a tree, left to right.
RECURSIVE Leaves(_)
Leaves(node) ==
    IF node.kind = "ComparisonNode" THEN <<node>>
    ELSE Leaves(node.left) \o Leaves(node.right)

\* The comparisons of an expression text in source order: the lexemes around
\* each operator lexeme.
SourceComparisons(expression) ==
    LET is_operator(i) == expression[i].type = "OPERATOR"
        RECURSIVE from(_)
        from(i) == IF i > Len(expression) THEN <<>>
                   ELSE IF is_operator(i)
                   THEN <<[field |-> expression[i - 1].value.v,
                           operator |-> expression[i].value.v,
                           value |-> expression[i + 1].value]>> \o from(i + 1)
                   ELSE from(i + 1)
    IN  from(1)

\* No comparison of the tree raises on the payload.
NoComparisonRaises(node, p) ==
    \A i \in 1..Len(Leaves(node)) :
        _evaluate_comparison(ExpressionEvaluator(p), Leaves(node)[i]).outcome.kind = "ok"

\* Whether the operator holds between two values that it can compare.
Holds(operator, actual, expected) ==
    CASE operator = "==" -> PyEq(actual, expected)
      [] operator = "!=" -> ~PyEq(actual, expected)
      [] operator = ">" -> PyOrder(actual, expected) = "gt"
      [] operator = ">=" -> PyOrder(actual, expected) \in {"gt", "eq"}
      [] operator = "<" -> PyOrder(actual, expected) = "lt"
      [] operator = "<=" -> PyOrder(actual, expected) \in {"lt", "eq"}
      [] operator = "contains" -> PyIn(expected, actual)
      [] operator = "not_contains" -> ~PyIn(expected, actual)
      [] operator = "in" -> PyIn(actual, expected)
      [] operator = "not_in" -> ~PyIn(actual, expected)

\* The boolean value of a tree on a payload that has every field it names.
RECURSIVE TreeValue(_, _)
TreeValue(node, p) ==
    IF node.kind = "ComparisonNode"
    THEN Holds(node.operator, p[node.field],
               IF node.is_field_comparison THEN p[node.value.v] ELSE node.value)
    ELSE IF node.operator = "AND"
    THEN TreeValue(node.left, p) /\ TreeValue(node.right, p)
    ELSE TreeValue(node.left, p) \/ TreeValue(node.right, p)

DetailedRan == detailed_result.kind # "none"
PlainRan == plain_result.kind # "none"
Trace == detailed_result.value.comparison_results

\* C1: on a payload on which no comparison raises, evaluate_expression_detailed
\* returns a trace with exactly one entry per Comparison node of the parsed
\* tree, in the left-to-right order of the source, each carrying the result
\* of its own comparison, whatever the left operands of AND / OR gave.
C1_TraceHasEveryComparison ==
    (DetailedRan /\ NoComparisonRaises(ast.value, payload)) =>
        /\ detailed_result.kind = "ok"
        /\ Len(Trace) = Len(Leaves(ast.value))
        /\ Len(Trace) = Len(SourceComparisons(rule.expression[1]))
        /\ \A i \in 1..Len(Trace) :
              /\ "error" \notin DOMAIN Trace[i]
              /\ Trace[i].field = SourceComparisons(rule.expression[1])[i].field
              /\ Trace[i].operator = SourceComparisons(rule.expression[1])[i].operator
              /\ Trace[i].field = Leaves(ast.value)[i].field
              /\ Trace[i].operator = Leaves(ast.value)[i].operator
              /\ Trace[i].passed = TreeValue(Leaves(ast.value)[i], payload)

\* An OR whose left operand passed and whose right operand was still
\* evaluated, and failed.
C1_Witness ==
    /\ DetailedRan
    /\ detailed_result.kind = "ok"
    /\ ast.value.kind = "BinaryOpNode"
    /\ ast.value.operator = "OR"
    /\ NoComparisonRaises(ast.value, payload)
    /\ Len(Trace) = 2
    /\ Trace[1].passed
    /\ ~Trace[2].passed

\* C2: on a payload on which no comparison raises, evaluate returns the
\* boolean value of the tree (AND: both operands true; OR: at least one;
\* a leaf: its operator holds between the payload value of its field and
\* its right-hand value), in the plain and in the tracing evaluator.
C2_EvaluateIsTreeValue ==
    /\ (PlainRan /\ NoComparisonRaises(ast.value, payload)) =>
           plain_result = Ok(TreeValue(ast.value, payload))
    /\ (DetailedRan /\ NoComparisonRaises(ast.value, payload)) =>
           /\ detailed_result.kind = "ok"
           /\ detailed_result.value.result = TreeValue(ast.value, payload)

\* An AND under an OR evaluated to true by the plain evaluator although the
\* AND's own operands were not both true.
C2_Witness ==
    /\ PlainRan
    /\ plain_result = Ok(TRUE)
    /\ ast.value.kind = "BinaryOpNode"
    /\ ast.value.operator = "OR"
    /\ ast.value.right.kind = "BinaryOpNode"
    /\ ast.value.right.operator = "AND"
    /\ NoComparisonRaises(ast.value, payload)
    /\ ~TreeValue(ast.value.right, payload)

(***************************************************************************)
(* Properties of the rule-level evaluators.                                *)
(***************************************************************************)
EvaluationRan == evaluation_result.kind # "none"
PredicateRuleRan == EvaluationRan /\ ~IsExpressionRule(rule)
ExpressionRuleRan == EvaluationRan /\ IsExpressionRule(rule)
Results == evaluation_result.value.predicate_results

\* The expression text 'p1 op p2 op ... op pn' of a predicate list.
RECURSIVE PredicateExpression(_, _)
PredicateExpression(predicates, op) ==
    LET n == Len(predicates)
        last == <<FieldLexeme(predicates[n].field),
                  OperatorLexeme(predicates[n].operator),
                  ValueLexeme(predicates[n].value)>>
    IN  IF n = 1 THEN last
        ELSE PredicateExpression(SubSeq(predicates, 1, n - 1), op)
                 \o <<IF op = "AND" THEN AndLexeme ELSE OrLexeme>> \o last

\* The expression rule that states the predicate rule under evaluation.
EquivalentRule ==
    Rule(rule.id, rule.name, rule.description, Nothing,
         Some(PredicateExpression(rule.predicates[1], rule.logical_operator)),
         "AND").value

PassedFlags(result) ==
    [i \in 1..Len(result.predicate_results) |-> result.predicate_results[i].passed]

\* The predicate rule's result and the result of its expression rule agree
\* in verdict and in the passed flags of their entries.
SameVerdictAndFlags(hash_order) ==
    LET e == _evaluate_rule(EquivalentRule, payload, hash_order)
    IN  /\ e.kind = "ok"
        /\ evaluation_result.kind = "ok"
        /\ e.value.result = evaluation_result.value.result
        /\ PassedFlags(e.value) = PassedFlags(evaluation_result.value)

\* No predicate of the rule raises on the payload.
NoPredicateRaises ==
    \A i \in 1..Len(rule.predicates[1]) :
        _evaluate_predicate(rule.predicates[1][i], payload).kind = "ok"

\* C3 as stated: a predicate rule and the expression rule 'p1 op ... op pn'
\* give the same verdict and the same passed flags on every payload,
\* missing fields and incomparable types included.
C3_SameAsExpressionRule ==
    PredicateRuleRan => \A hash_order \in HashOrders : SameVerdictAndFlags(hash_order)

\* C3, amended: on a payload on which no predicate raises, the predicate rule
\* and the expression rule 'p1 op ... op pn' give the same verdict and the
\* same passed flags; on a payload on which a predicate raises, the
\* expression rule is FAIL, and so is the predicate rule if it is an AND rule.
C3_SameAsExpressionRuleWithoutErrors ==
    PredicateRuleRan =>
        \A hash_order \in HashOrders :
            IF NoPredicateRaises THEN SameVerdictAndFlags(hash_order)
            ELSE /\ _evaluate_rule(EquivalentRule, payload, hash_order).kind = "ok"
                 /\ _evaluate_rule(EquivalentRule, payload, hash_order).value.result = FAIL
                 /\ evaluation_result.kind = "ok"
                 /\ rule.logical_operator = "AND" => evaluation_result.value.result = FAIL

\* An OR rule of several predicates, none raising, that passed although one
\* of its predicates failed.
C3_Witness ==
    /\ PredicateRuleRan
    /\ rule.logical_operator = "OR"
    /\ Len(rule.predicates[1]) >= 2
    /\ NoPredicateRaises
    /\ evaluation_result.value.result = PASS
    /\ \E i \in 1..Len(Results) : ~Results[i].passed

\* Predicate i passed: it returned true (a predicate that raises did not).
PredicatePassed(i) == _evaluate_predicate(rule.predicates[1][i], payload) = Ok(TRUE)

\* C4: an AND predicate rule is PASS iff none of its predicates failed, a
\* predicate that raised MissingField or TypeMismatch counting as failed; an
\* OR predicate rule is PASS iff at least one of its predicates passed.
C4_PredicateRuleVerdict ==
    PredicateRuleRan =>
        /\ evaluation_result.kind = "ok"
        /\ evaluation_result.value.result \in {PASS, FAIL}
        /\ rule.logical_operator = "AND" =>
               (evaluation_result.value.result = PASS
                    <=> \A i \in 1..Len(rule.predicates[1]) : PredicatePassed(i))
        /\ rule.logical_operator = "OR" =>
               (evaluation_result.value.result = PASS
                    <=> \E i \in 1..Len(rule.predicates[1]) : PredicatePassed(i))

\* Predicates [age >= 18, tag == 'x'] with the first failing and the second
\* passing, evaluated under OR: PASS.
C4_Witness ==
    /\ PredicateRuleRan
    /\ rule.logical_operator = "OR"
    /\ Len(rule.predicates[1]) = 2
    /\ ~PredicatePassed(1)
    /\ PredicatePassed(2)
    /\ evaluation_result.value.result = PASS

\* The locals of _evaluate_predicate_rule after its loop.
LoopLocals == _predicate_loop(rule.predicates[1], payload, 1, PredicateLocals)

\* C5: predicate_results has exactly one entry per predicate, in list order;
\* a predicate that raises MissingField or TypeMismatch yields an entry with
\* passed = false and an error field, the other predicates an entry with
\* their result and no error; later predicates are still evaluated;
\* passed_count + failed_count is the number of predicates.
C5_OneEntryPerPredicate ==
    PredicateRuleRan =>
        /\ evaluation_result.kind = "ok"
        /\ Len(Results) = Len(rule.predicates[1])
        /\ \A i \in 1..Len(Results) :
              LET passed == _evaluate_predicate(rule.predicates[1][i], payload)
              IN  /\ Results[i].field = rule.predicates[1][i].field
                  /\ Results[i].operator = rule.predicates[1][i].operator
                  /\ Results[i].expected = rule.predicates[1][i].value
                  /\ IF passed.kind = "raise"
                     THEN /\ passed.exc.type \in {"MissingFieldException",
                                                  "TypeMismatchException"}
                          /\ Results[i].passed = FALSE
                          /\ "error" \in DOMAIN Results[i]
                          /\ Results[i].error = passed.exc.message
                     ELSE /\ Results[i].passed = passed.value
                          /\ "error" \notin DOMAIN Results[i]
        /\ LoopLocals.kind = "ok"
        /\ LoopLocals.value.predicate_results = Results
        /\ LoopLocals.value.passed_count + LoopLocals.value.failed_count
               = Len(rule.predicates[1])

\* A rule whose first predicate raised and whose later predicate was still
\* evaluated, and passed.
C5_Witness ==
    /\ PredicateRuleRan
    /\ Len(rule.predicates[1]) >= 2
    /\ "error" \in DOMAIN Results[1]
    /\ Results[Len(Results)].passed

\* The comparison raises MissingField or TypeMismatch on the payload.
ComparisonRaises(node, p) ==
    LET o == _evaluate_comparison(ExpressionEvaluator(p), node).outcome
    IN  /\ o.kind = "raise"
        /\ o.exc.type \in {"MissingFieldException", "TypeMismatchException"}

\* The position, among the leaves of the parsed tree, of the first
\* comparison that raises on the payload.
FirstRaising ==
    CHOOSE k \in 1..Len(Leaves(ast.value)) :
        /\ ComparisonRaises(Leaves(ast.value)[k], payload)
        /\ \A j \in 1..(k - 1) : ~ComparisonRaises(Leaves(ast.value)[j], payload)

\* C6: when a comparison raises MissingField or TypeMismatch during tracing
\* evaluation, evaluate_expression_detailed returns (False, trace): the
\* entries of the comparisons before the failing one, in order, then one
\* entry for the failing comparison with passed = false and an error field,
\* and nothing for the comparisons after it; the rule-level evaluator
\* returns a FAIL result and raises nothing.
C6_ErrorGivesPartialTrace ==
    /\ (DetailedRan /\ ~NoComparisonRaises(ast.value, payload)) =>
           /\ detailed_result.kind = "ok"
           /\ detailed_result.value.result = FALSE
           /\ Len(Trace) = FirstRaising
           /\ \A i \in 1..(FirstRaising - 1) :
                 /\ Trace[i].field = Leaves(ast.value)[i].field
                 /\ Trace[i].operator = Leaves(ast.value)[i].operator
                 /\ "error" \notin DOMAIN Trace[i]
                 /\ Trace[i].passed = TreeValue(Leaves(ast.value)[i], payload)
           /\ Trace[FirstRaising].field = Leaves(ast.value)[FirstRaising].field
           /\ Trace[FirstRaising].operator = Leaves(ast.value)[FirstRaising].operator
           /\ Trace[FirstRaising].passed = FALSE
           /\ "error" \in DOMAIN Trace[FirstRaising]
           /\ Trace[FirstRaising].error =
                  _evaluate_comparison(ExpressionEvaluator(payload),
                      Leaves(ast.value)[FirstRaising]).outcome.exc.message
    /\ (ExpressionRuleRan /\ ast.kind = "ok"
            /\ ~NoComparisonRaises(ast.value, payload)) =>
           /\ evaluation_result.kind = "ok"
           /\ evaluation_result.value.result = FAIL

\* Three comparisons of which the second raised: one entry before it, its
\* own error entry, and none for the third.
C6_Witness ==
    /\ DetailedRan
    /\ Len(Leaves(ast.value)) = 3
    /\ ~ComparisonRaises(Leaves(ast.value)[1], payload)
    /\ ComparisonRaises(Leaves(ast.value)[2], payload)
    /\ detailed_result.kind = "ok"
    /\ Len(Trace) = 2
    /\ "error" \in DOMAIN Trace[2]

\* The field names the expression text refers to, and those the payload lacks.
ReferencedFields ==
    {rule.expression[1][i].value.v :
        i \in {j \in 1..Len(rule.expression[1]) : rule.expression[1][j].type = "FIELD"}}
MissingFields == ReferencedFields \ DOMAIN payload

\* C7: if a field the expression refers to (on the left of a comparison or
\* on the right of a field-to-field comparison) is absent from the payload,
\* the rule is FAIL, its reason names exactly the missing fields, and
\* predicate_results holds a single error entry and no per-comparison entry;
\* if none is absent, the comparisons are evaluated and none raises
\* MissingField.
C7_RequiredFieldsPrecheck ==
    (ExpressionRuleRan /\ ast.kind = "ok") =>
        /\ evaluation_result.kind = "ok"
        /\ IF MissingFields # {}
           THEN /\ evaluation_result.value.result = FAIL
                /\ \E s \in Orderings(MissingFields) :
                       evaluation_result.value.reason =
                           "Missing required fields: " \o JoinStrs(s, ", ")
                /\ Len(Results) = 1
                /\ DOMAIN Results[1] = {"error", "passed"}
                /\ Results[1].passed = FALSE
                /\ Results[1].error = evaluation_result.value.reason
           ELSE /\ Len(Results) >= 1
                /\ \A i \in 1..Len(Results) :
                      /\ Results[i].field = Leaves(ast.value)[i].field
                      /\ \A f \in FieldNames :
                            Results[i].error # Str_(MissingFieldException(f).message)
                /\ \A i \in 1..Len(Leaves(ast.value)) :
                      _evaluate_comparison(ExpressionEvaluator(payload),
                          Leaves(ast.value)[i]).outcome.exc.type
                              # "MissingFieldException"

\* A field-to-field comparison with both of its fields absent: one error
\* entry, the reason naming both.
C7_Witness ==
    /\ ExpressionRuleRan
    /\ ast.kind = "ok"
    /\ ast.value.kind = "ComparisonNode"
    /\ ast.value.is_field_comparison
    /\ Cardinality(MissingFields) = 2
    /\ evaluation_result.value.result = FAIL
    /\ Len(Results) = 1

\* The evaluation of the rule got as far as evaluating its conditions.
ReachesConditions ==
    \/ PredicateRuleRan
    \/ ExpressionRuleRan /\ ast.kind = "ok" /\ MissingFields = {}

\* The reasons of the entries with passed = false, in trace order.
FailedEntryReasons ==
    LET failed(entry) == ~entry.passed
        entries == SelectSeq(Results, failed)
    IN  [i \in 1..Len(entries) |-> entries[i].reason]

\* C8: for a rule, of either form, whose evaluation reaches its conditions:
\* a PASS result has the reason '<name> passed all conditions'; a FAIL
\* result has at least one entry with passed = false, and its reason is the
\* reasons of those entries in trace order joined by '; ' (one alone as it is).
C8_RuleLevelReason ==
    ReachesConditions =>
        /\ evaluation_result.kind = "ok"
        /\ evaluation_result.value.result \in {PASS, FAIL}
        /\ evaluation_result.value.result = PASS =>
               evaluation_result.value.reason = rule.name \o " passed all conditions"
        /\ evaluation_result.value.result = FAIL =>
               /\ Len(FailedEntryReasons) >= 1
               /\ evaluation_result.value.reason = JoinStrs(FailedEntryReasons, "; ")

\* A failed rule with two failing entries out of three.
C8_Witness ==
    /\ ReachesConditions
    /\ evaluation_result.value.result = FAIL
    /\ Len(Results) = 3
    /\ Len(FailedEntryReasons) = 2

(***************************************************************************)
(* Properties of the evaluation service.                                   *)
(***************************************************************************)
Succeeded == response.kind = "ok"
Details == response.value.details
Reasons == response.value.reasons

\* The stored rule a rule id string of the request denotes.
RequestedRule(i) == get_by_id(store, UUID(rule_ids[i]).value)[1]

\* C9: after a successful evaluate(payload, rule_ids), details and reasons
\* have one element per element of rule_ids, in request order, a repeated
\* id being evaluated at each occurrence; reasons[i] is
\* '<rule name>: <details[i].reason>'; the overall result is PASS iff every
\* details[i].result is PASS.
C9_AggregatedResponse ==
    Succeeded =>
        /\ Len(Details) = Len(rule_ids)
        /\ Len(Reasons) = Len(rule_ids)
        /\ \E hash_order \in HashOrders :
               \A i \in 1..Len(rule_ids) :
                   Ok(Details[i]) = _evaluate_rule(RequestedRule(i), payload, hash_order)
        /\ \A i \in 1..Len(rule_ids) :
               /\ Details[i].rule_id = UUID(rule_ids[i]).value
               /\ Details[i].rule_name = RequestedRule(i).name
               /\ Reasons[i] = RequestedRule(i).name \o ": " \o Details[i].reason
        /\ response.value.result \in {PASS, FAIL}
        /\ response.value.result = PASS
               <=> \A i \in 1..Len(Details) : Details[i].result = PASS

\* A request that names one rule twice, in two spellings of its id, and
\* another rule after it: three details, the last one the only PASS.
C9_Witness ==
    /\ Succeeded
    /\ rule_ids = <<"id1", "ID1", "id2">>
    /\ Len(Details) = 3
    /\ Details[1].result = FAIL
    /\ Details[2] = Details[1]
    /\ Details[3].result = PASS
    /\ response.value.result = FAIL

(***************************************************************************)
(* Properties of the parser.                                               *)
(***************************************************************************)
\* The tokens before Eof.
Body == SubSeq(tokens, 1, Len(tokens) - 1)

\* The number of parentheses open before token i.
Depth(ts, i) ==
    Cardinality({j \in 1..(i - 1) : ts[j].type = "LPAREN"})
        - Cardinality({j \in 1..(i - 1) : ts[j].type = "RPAREN"})

\* The places of the tokens of a type outside every parenthesis.
TopLevel(ts, type) == {i \in 1..Len(ts) : ts[i].type = type /\ Depth(ts, i) = 0}

Last(S) == CHOOSE i \in S : \A j \in S : j <= i

\* The grammar, read off the text: an expression is and-expressions separated
\* by OR; an and-expression is operands separated by AND; an operand is a
\* comparison or an expression in parentheses.
RECURSIVE Derivable(_)
Derivable(ts) ==
    IF \/ ts = <<>>
       \/ Depth(ts, Len(ts) + 1) # 0
       \/ \E i \in 1..Len(ts) : Depth(ts, i + 1) < 0
    THEN FALSE
    ELSE IF TopLevel(ts, "OR") # {}
    THEN /\ Derivable(SubSeq(ts, 1, Last(TopLevel(ts, "OR")) - 1))
         /\ Derivable(SubSeq(ts, Last(TopLevel(ts, "OR")) + 1, Len(ts)))
    ELSE IF TopLevel(ts, "AND") # {}
    THEN /\ Derivable(SubSeq(ts, 1, Last(TopLevel(ts, "AND")) - 1))
         /\ Derivable(SubSeq(ts, Last(TopLevel(ts, "AND")) + 1, Len(ts)))
    ELSE IF ts[1].type = "LPAREN"
    THEN ts[Len(ts)].type = "RPAREN" /\ Derivable(SubSeq(ts, 2, Len(ts) - 1))
    ELSE /\ Len(ts) = 3
         /\ ts[1].type = "FIELD"
         /\ ts[2].type = "OPERATOR"
         /\ ts[3].type \in {"VALUE", "FIELD"}

\* The tree of a derivable text: OR is split off before AND, chains lean to
\* the left, a parenthesised expression is one operand.
RECURSIVE ReferenceTree(_)
ReferenceTree(ts) ==
    IF TopLevel(ts, "OR") # {}
    THEN BinaryOpNode("OR",
             ReferenceTree(SubSeq(ts, 1, Last(TopLevel(ts, "OR")) - 1)),
             ReferenceTree(SubSeq(ts, Last(TopLevel(ts, "OR")) + 1, Len(ts))))
    ELSE IF TopLevel(ts, "AND") # {}
    THEN BinaryOpNode("AND",
             ReferenceTree(SubSeq(ts, 1, Last(TopLevel(ts, "AND")) - 1)),
             ReferenceTree(SubSeq(ts, Last(TopLevel(ts, "AND")) + 1, Len(ts))))
    ELSE IF ts[1].type = "LPAREN"
    THEN ReferenceTree(SubSeq(ts, 2, Len(ts) - 1))
    ELSE ComparisonNode(ts[1].value.v, ts[2].value.v, ts[3].value,
                        ts[3].type = "FIELD")

Accepted == parse_result.kind = "ok"

\* The leaves of the returned tree, as the source states its comparisons.
ParsedComparisons ==
    [i \in 1..Len(Leaves(parse_result.value)) |->
        [field |-> Leaves(parse_result.value)[i].field,
         operator |-> Leaves(parse_result.value)[i].operator,
         value |-> Leaves(parse_result.value)[i].value]]

\* C10: for every token sequence the parser accepts, the tree is the one the
\* grammar gives the whole sequence (AND binds tighter than OR, chains of one
\* operator lean to the left, a parenthesised expression is a single
\* operand), and its leaves, left to right, are the comparisons of the
\* source in source order.
C10_ParseTreeShape ==
    Accepted =>
        /\ Derivable(Body)
        /\ parse_result.value = ReferenceTree(Body)
        /\ ParsedComparisons = SourceComparisons(Body)

\* C10, for the token sequences the parser reads to their end: the tree is
\* the one the grammar gives, and its leaves are the comparisons of the
\* source in source order.
C10_ParseTreeShapeWhenReadToEnd ==
    (Accepted /\ parse_result.position = Len(tokens) - 1) =>
        /\ Derivable(Body)
        /\ parse_result.value = ReferenceTree(Body)
        /\ ParsedComparisons = SourceComparisons(Body)

\* A token sequence accepted although the parser stopped before Eof: the
\* tree lacks comparisons of the source.
C10_Witness ==
    /\ Accepted
    /\ parse_result.position < Len(tokens) - 1
    /\ Len(ParsedComparisons) < Len(SourceComparisons(Body))

\* 'x AND (y OR z)' read to its end: the parenthesised OR is the right
\* operand of the AND.
C10_WitnessReadToEnd ==
    /\ Accepted
    /\ parse_result.position = Len(tokens) - 1
    /\ parse_result.value.kind = "BinaryOpNode"
    /\ parse_result.value.operator = "AND"
    /\ parse_result.value.right.kind = "BinaryOpNode"
    /\ parse_result.value.right.operator = "OR"

(***************************************************************************)
(* Properties of comparisons.                                              *)
(***************************************************************************)
\* The lexemes that follow the operator lexemes of an expression text.
RightOperands(expression) ==
    LET RECURSIVE from(_)
        from(i) == IF i > Len(expression) THEN <<>>
                   ELSE IF expression[i].type = "OPERATOR"
                   THEN <<expression[i + 1]>> \o from(i + 1)
                   ELSE from(i + 1)
    IN  from(1)

FieldToField(node) == node.kind = "ComparisonNode" /\ node.is_field_comparison

\* C11: every Comparison the parser builds has is_field_comparison true
\* exactly when the token after its operator is a Field token, its value
\* being that field's name, and otherwise the literal of the Value token;
\* a field-to-field Comparison whose two fields are in the payload is
\* evaluated between payload[field] and payload[value]: it raises
\* TypeMismatch when these two cannot be ordered, and otherwise gives what
\* the operator gives between them, and the trace records payload[value] as
\* the expected value.
C11_FieldToFieldComparison ==
    IsExpressionRule(rule) =>
        /\ ast.kind = "ok"
        /\ Len(Leaves(ast.value)) = Len(RightOperands(rule.expression[1]))
        /\ \A i \in 1..Len(Leaves(ast.value)) :
              /\ Leaves(ast.value)[i].is_field_comparison
                     = (RightOperands(rule.expression[1])[i].type = "FIELD")
              /\ Leaves(ast.value)[i].value = RightOperands(rule.expression[1])[i].value
        /\ (/\ FieldToField(ast.value)
            /\ {ast.value.field, ast.value.value.v} \subseteq DOMAIN payload) =>
               LET actual == payload[ast.value.field]
                   compared == payload[ast.value.value.v]
                   ordered == ast.value.operator \in {">", ">=", "<", "<="}
                   applied == IF ordered /\ PyOrder(actual, compared) = "TypeError"
                              THEN Raise(TypeMismatchException(ast.value.field,
                                            TypeName(compared), TypeName(actual)))
                              ELSE Ok(Holds(ast.value.operator, actual, compared))
               IN  /\ PlainRan => plain_result = applied
                   /\ DetailedRan =>
                          /\ Len(Trace) = 1
                          /\ Trace[1].expected = compared
                          /\ Trace[1].compared_field = ast.value.value
                          /\ Trace[1].passed = (applied = Ok(TRUE))

\* tag == age on a payload in which both are 'x': the comparison passes,
\* which it would not against the name 'age'.
C11_Witness ==
    /\ PlainRan
    /\ IsExpressionRule(rule)
    /\ FieldToField(ast.value)
    /\ RightOperands(rule.expression[1])[1].type = "FIELD"
    /\ ast.value.operator = "=="
    /\ {ast.value.field, ast.value.value.v} \subseteq DOMAIN payload
    /\ payload[ast.value.field] = payload[ast.value.value.v]
    /\ payload[ast.value.value.v] # ast.value.value
    /\ plain_result = Ok(TRUE)

\* C12: the plain evaluation of a Comparison whose left field is not in the
\* payload raises MissingField naming the left field, also when the
\* right-hand field of a field-to-field Comparison is absent as well; when
\* the left field is present and the right-hand field is absent it raises
\* MissingField naming the right-hand field. No boolean is returned.
C12_MissingFieldInPlainEvaluation ==
    (PlainRan /\ ast.value.kind = "ComparisonNode") =>
        /\ ast.value.field \notin DOMAIN payload =>
               plain_result = Raise(MissingFieldException(ast.value.field))
        /\ (/\ ast.value.is_field_comparison
            /\ ast.value.field \in DOMAIN payload
            /\ ast.value.value.v \notin DOMAIN payload) =>
               plain_result = Raise(MissingFieldException(ast.value.value.v))

\* age < lim on a payload that has neither field: age is the one named.
C12_Witness ==
    /\ PlainRan
    /\ FieldToField(ast.value)
    /\ ast.value.field \notin DOMAIN payload
    /\ ast.value.value.v \notin DOMAIN payload
    /\ ast.value.field # ast.value.value.v
    /\ plain_result.kind = "raise"
    /\ plain_result.exc.type = "MissingFieldException"
    /\ plain_result.exc.field = ast.value.field

\* Whether Python orders the two values: numbers with numbers, strings with
\* strings.
MutuallyOrdered(a, b) ==
    \/ a.t \in {"int", "float", "bool"} /\ b.t \in {"int", "float", "bool"}
    \/ a.t = "str" /\ b.t = "str"

RaisesTypeMismatch(outcome, field) ==
    /\ outcome.kind = "raise"
    /\ outcome.exc.type = "TypeMismatchException"
    /\ outcome.exc.field = field

\* C13: the plain evaluation of a Comparison whose fields are in the payload
\* raises TypeMismatch naming the left field, and returns no boolean, when
\* the operator is >, >=, < or <= and the two operands are not mutually
\* ordered, when it is contains / not_contains and the actual value is
\* neither a string nor a list, and when it is in / not_in and the
\* right-hand value is not a list.
C13_TypeMismatch ==
    (/\ PlainRan
     /\ ast.value.kind = "ComparisonNode"
     /\ ast.value.field \in DOMAIN payload
     /\ ast.value.is_field_comparison => ast.value.value.v \in DOMAIN payload) =>
        LET actual == payload[ast.value.field]
            expected == IF ast.value.is_field_comparison
                        THEN payload[ast.value.value.v] ELSE ast.value.value
            operator == ast.value.operator
        IN  /\ (operator \in {">", ">=", "<", "<="} /\ ~MutuallyOrdered(actual, expected)) =>
                   RaisesTypeMismatch(plain_result, ast.value.field)
            /\ (operator \in {"contains", "not_contains"} /\ actual.t \notin {"str", "list"}) =>
                   RaisesTypeMismatch(plain_result, ast.value.field)
            /\ (operator \in {"in", "not_in"} /\ expected.t # "list") =>
                   RaisesTypeMismatch(plain_result, ast.value.field)

\* A string age compared by >= with the number 17.
C13_Witness ==
    /\ PlainRan
    /\ ast.value.kind = "ComparisonNode"
    /\ ast.value.operator = ">="
    /\ ~ast.value.is_field_comparison
    /\ ast.value.field \in DOMAIN payload
    /\ payload[ast.value.field].t = "str"
    /\ ast.value.value.t = "int"
    /\ RaisesTypeMismatch(plain_result, ast.value.field)

\* The number 17 asked whether it contains 'x'.
C13_WitnessContains ==
    /\ PlainRan
    /\ ast.value.kind = "ComparisonNode"
    /\ ast.value.operator = "contains"
    /\ ast.value.field \in DOMAIN payload
    /\ payload[ast.value.field].t = "int"
    /\ RaisesTypeMismatch(plain_result, ast.value.field)

\* A value asked whether it is in the number 17.
C13_WitnessIn ==
    /\ PlainRan
    /\ ast.value.kind = "ComparisonNode"
    /\ ast.value.operator = "not_in"
    /\ ast.value.field \in DOMAIN payload
    /\ ast.value.value.t = "int"
    /\ RaisesTypeMismatch(plain_result, ast.value.field)

(***************************************************************************)
(* Properties of what the parser rejects.                                  *)
(***************************************************************************)
ParseRan == parse_result # NotRun

Rejected == parse_result.kind = "raise" /\ parse_result.exc.type = "ValueError"

\* A closing parenthesis in the text that no opening one matches.
UnmatchedClose(ts) == \E i \in 1..Len(ts) : Depth(ts, i + 1) < 0

\* An opening parenthesis in the text that is never closed.
UnmatchedOpen(ts) == ~UnmatchedClose(ts) /\ Depth(ts, Len(ts) + 1) > 0

\* C14: the parser returns a tree only when the whole token sequence up to
\* Eof is derived by the grammar; a sequence that is not (an unmatched
\* parenthesis, tokens left over after a complete expression) is rejected
\* with a ValueError.
C14_OnlyWholeSequenceAccepted ==
    ParseRan =>
        /\ Accepted => Derivable(Body)
        /\ ~Derivable(Body) => Rejected

\* A complete expression followed by a ')' that nothing opened, accepted.
C14_Witness ==
    /\ Accepted
    /\ UnmatchedClose(Body)
    /\ ~Derivable(Body)
    /\ parse_result.position < Len(Body)
    /\ Body[parse_result.position + 1].type = "RPAREN"

\* A complete expression followed by a '(' that is never closed, accepted.
C14_WitnessUnclosed ==
    /\ Accepted
    /\ UnmatchedOpen(Body)
    /\ parse_result.position < Len(Body)
    /\ Body[parse_result.position + 1].type = "LPAREN"

\* A complete expression followed by a further comparison, accepted.
C14_WitnessLeftOver ==
    /\ Accepted
    /\ ~UnmatchedClose(Body)
    /\ ~UnmatchedOpen(Body)
    /\ parse_result.position < Len(Body)
    /\ Body[parse_result.position + 1].type = "FIELD"

\* What the parser does reject: every sequence that is not derivable is
\* either rejected or accepted with the parser stopped before Eof.
C14_RejectedOrNotReadToEnd ==
    (ParseRan /\ ~Derivable(Body)) =>
        Rejected \/ (Accepted /\ parse_result.position < Len(tokens) - 1)

(***************************************************************************)
(* Properties of parse_expression on texts.                                *)
(***************************************************************************)
TextRan == parse_expression_result # NotRun

Tokenized == tokenize_result.kind = "ok"

TextRejected ==
    parse_expression_result.kind = "raise" /\ parse_expression_result.exc.type = "ValueError"

\* The places of the text at which a single '=' stands: neither followed by
\* '=' nor the second character of ==, !=, >= or <=. No text of the model
\* has a '=' inside a string literal.
SingleEquals ==
    {i \in 1..Len(text) :
        /\ text[i] = "="
        /\ (i = Len(text) \/ text[i + 1] # "=")
        /\ (i = 1 \/ text[i - 1] \notin {"=", "!", ">", "<"})}

First(S) == CHOOSE i \in S : \A j \in S : i <= j

\* The message the single '=' at place i of the text calls for.
SingleEqualsMessage(i) ==
    "Single '=' operator at position " \o ToString(i - 1)
        \o ". Use '==' for equality comparison. Context: ..."
        \o Text(SubSeq(text, IF i - 1 < 10 THEN 1 ELSE i - 10,
                       IF i + 9 < Len(text) THEN i + 9 ELSE Len(text)))
        \o "..."

\* A comparison without its field: an operator that no field precedes.
LacksField(ts) ==
    \E i \in 1..Len(ts) : ts[i].type = "OPERATOR" /\ (i = 1 \/ ts[i - 1].type # "FIELD")

\* A comparison without its right-hand operand: an operator that neither a
\* value nor a field follows.
LacksOperand(ts) ==
    \E i \in 1..(Len(ts) - 1) :
        ts[i].type = "OPERATOR" /\ ts[i + 1].type \notin {"VALUE", "FIELD"}

\* A comparison without its operator: a field or a value with no operator
\* next to it.
LacksOperator(ts) ==
    \E i \in 1..(Len(ts) - 1) :
        /\ i = 1 \/ ts[i - 1].type # "OPERATOR"
        /\ \/ ts[i].type = "FIELD" /\ ts[i + 1].type # "OPERATOR"
           \/ ts[i].type = "VALUE"

Malformed(ts) == Len(ts) = 1 \/ LacksField(ts) \/ LacksOperator(ts) \/ LacksOperand(ts)

\* C15: a text with a single '=' is rejected by the tokenizer with the
\* ValueError whose message names the position and says to use '=='; a text
\* that is empty, or in which a comparison lacks its field, its operator or
\* its right-hand operand, is rejected with a ValueError; no tree is
\* returned for any of them.
C15_MalformedComparisonRejected ==
    TextRan =>
        /\ SingleEquals # {} =>
              /\ tokenize_result.kind = "raise"
              /\ tokenize_result.exc.type = "ValueError"
              /\ tokenize_result.exc.message = SingleEqualsMessage(First(SingleEquals))
              /\ parse_expression_result = tokenize_result
        /\ (Tokenized /\ Malformed(tokenize_result.value)) => TextRejected

\* The token at which the parser stops on the tokens of the text.
StoppedAt == parse(ExpressionParser(tokenize_result.value)).self.position

\* A text accepted although, behind a complete expression, it has a
\* comparison that lacks its operator.
C15_Witness ==
    /\ TextRan
    /\ Tokenized
    /\ parse_expression_result.kind = "ok"
    /\ LacksOperator(tokenize_result.value)
    /\ ~LacksField(tokenize_result.value)
    /\ ~LacksOperand(tokenize_result.value)

\* What is rejected: the single '=', by the tokenizer, and every text that is
\* empty or has a comparison lacking a part, unless the parser stops before
\* the end of the tokens.
C15_RejectedUnlessNotReadToEnd ==
    TextRan =>
        /\ SingleEquals # {} =>
              /\ tokenize_result.kind = "raise"
              /\ tokenize_result.exc.message = SingleEqualsMessage(First(SingleEquals))
        /\ (Tokenized /\ Malformed(tokenize_result.value)) =>
              \/ TextRejected
              \/ /\ parse_expression_result.kind = "ok"
                 /\ StoppedAt < Len(tokenize_result.value) - 1

\* A text with a single '=', rejected by the tokenizer.
C15_WitnessSingleEquals ==
    /\ TextRan
    /\ SingleEquals # {}
    /\ tokenize_result.kind = "raise"
    /\ parse_expression_result.kind = "raise"

\* The empty text, and a first comparison without its operand, rejected by
\* the parser.
C15_WitnessEmpty ==
    /\ TextRan
    /\ text = <<>>
    /\ Tokenized
    /\ TextRejected

C15_WitnessNoOperand ==
    /\ TextRan
    /\ Tokenized
    /\ tokenize_result.value[1].type = "FIELD"
    /\ tokenize_result.value[2].type = "OPERATOR"
    /\ tokenize_result.value[3].type = "EOF"
    /\ TextRejected

\* The word of the text that starts at offset p: the letters, digits and
\* underscores from there on.
RECURSIVE WordAt(_)
WordAt(p) ==
    IF p < Len(text) /\ (isalnum(text[p + 1]) \/ text[p + 1] = "_")
    THEN <<text[p + 1]>> \o WordAt(p + 1)
    ELSE <<>>

WordOperatorNames == {"in", "contains", "not_in", "not_contains"}

\* The field names of the model's texts that begin with or contain the name
\* of an operator.
KeywordFields == {"income", "container", "insurance_type", "im_not_in_class"}

\* C16: in the tokens of a text, an Operator token with a word-shaped
\* operator stands only where the whole word of the text is that operator
\* (the character right after it is no letter, digit or '_'), and a Field
\* token is the whole word at its place and is never one of the word-shaped
\* operators; a text 'income > 1' (and the same with container,
\* insurance_type and im_not_in_class), however spaced, parses to the
\* comparison of that field by '>' with 1.
C16_KeywordInFieldName ==
    /\ (TextRan /\ Tokenized) =>
           \A i \in 1..Len(tokenize_result.value) :
               LET token == tokenize_result.value[i]
               IN  /\ (token.type = "OPERATOR" /\ token.value.v \in WordOperatorNames) =>
                          Text(WordAt(token.position)) = token.value.v
                   /\ token.type = "FIELD" =>
                          /\ Text(WordAt(token.position)) = token.value.v
                          /\ token.value.v \notin WordOperatorNames
                          /\ token.position = 0
                                \/ ~(isalnum(text[token.position]) \/ text[token.position] = "_")
                                \/ isdigit(text[token.position])
    /\ TextRan =>
           \A field \in KeywordFields, before, after \in 0..MaxSpaces :
               text = Chars(field) \o Spaces(before) \o <<">">> \o Spaces(after) \o <<"1">> =>
                   /\ Tokenized
                   /\ tokenize_result.value[1] = Token("FIELD", Str_(field), 0)
                   /\ parse_expression_result
                          = Ok(ComparisonNode(field, ">", Int_(1), FALSE))

\* 'im_not_in_class>1': one Field token, then the operator '>'.
C16_Witness ==
    /\ TextRan
    /\ Tokenized
    /\ tokenize_result.value[1].type = "FIELD"
    /\ tokenize_result.value[1].value.v = "im_not_in_class"
    /\ tokenize_result.value[2].type = "OPERATOR"
    /\ tokenize_result.value[2].value.v = ">"
    /\ parse_expression_result.kind = "ok"
    /\ parse_expression_result.value.kind = "ComparisonNode"
    /\ parse_expression_result.value.field = "im_not_in_class"

\* 'a in[1, 2]': the word in, with '[' right after it, is an Operator token.
C16_WitnessOperator ==
    /\ TextRan
    /\ Tokenized
    /\ tokenize_result.value[1].type = "FIELD"
    /\ tokenize_result.value[2].type = "OPERATOR"
    /\ tokenize_result.value[2].value.v = "in"
    /\ tokenize_result.value[2].position + 3 <= Len(text)
    /\ text[tokenize_result.value[2].position + 3] = "["
    /\ parse_expression_result.kind = "ok"

\* 'ain 1': the letters i, n behind a are part of the Field token ain.
C16_WitnessJoined ==
    /\ TextRan
    /\ Tokenized
    /\ tokenize_result.value[1].type = "FIELD"
    /\ tokenize_result.value[1].value.v = "ain"

(***************************************************************************)
(* Properties of rules and of RuleService.                                 *)
(***************************************************************************)
Constructing == call.op \in {"Rule", "from_dict"}

\* What a call of Rule(...) or Rule.from_dict was given for predicates,
\* expression and logical_operator.
GivenPredicates ==
    IF call.op = "from_dict"
    THEN "predicates" \in DOMAIN call.data /\ call.data.predicates # None
    ELSE call.args.predicates # Nothing

GivenExpression ==
    IF call.op = "from_dict"
    THEN "expression" \in DOMAIN call.data /\ call.data.expression # None
    ELSE call.args.expression # Nothing

GivenLogicalOperator ==
    IF call.op = "from_dict"
    THEN IF "logical_operator" \in DOMAIN call.data
         THEN call.data.logical_operator ELSE "AND"
    ELSE call.args.logical_operator

\* C17: every Rule that Rule(...) or Rule.from_dict returns has exactly one
\* of predicates and expression set and a logical_operator of AND or OR;
\* a construction with both set, with neither set, or with another
\* logical_operator raises.
C17_ExactlyOneForm ==
    Constructing =>
        /\ call_result.kind = "ok" =>
              /\ (call_result.value.predicates # Nothing)
                     # (call_result.value.expression # Nothing)
              /\ call_result.value.logical_operator \in {"AND", "OR"}
        /\ (GivenPredicates /\ GivenExpression) => call_result.kind = "raise"
        /\ (~GivenPredicates /\ ~GivenExpression) => call_result.kind = "raise"
        /\ GivenLogicalOperator \notin {"AND", "OR"} => call_result.kind = "raise"

\* Rule(...) with a predicate list and an expression: ValueError.
C17_Witness ==
    /\ call.op = "Rule"
    /\ call.args.predicates # Nothing
    /\ call.args.expression # Nothing
    /\ call.args.logical_operator = "AND"
    /\ call_result.kind = "raise"
    /\ call_result.exc.type = "ValueError"

\* Rule.from_dict of a dict with neither key: ValueError.
C17_WitnessFromDict ==
    /\ call.op = "from_dict"
    /\ ~GivenPredicates
    /\ ~GivenExpression
    /\ call_result.kind = "raise"
    /\ call_result.exc.type = "ValueError"

\* Rule.from_dict of a dict with predicates and an OR: a Rule in predicate
\* form.
C17_WitnessConstructed ==
    /\ call.op = "from_dict"
    /\ call_result.kind = "ok"
    /\ call_result.value.predicates # Nothing
    /\ call_result.value.expression = Nothing
    /\ call_result.value.logical_operator = "OR"

\* The stored rules in predicate form have a predicate.
StoredNonEmpty ==
    \A i \in 1..Len(file) :
        "predicates" \in DOMAIN file[i] => Len(file[i].predicates) > 0

\* The Rule a construction returned, if in predicate form, has a predicate.
ConstructedNonEmpty ==
    (Constructing /\ call_result.kind = "ok" /\ call_result.value.predicates # Nothing)
        => Len(call_result.value.predicates[1]) > 0

\* C18: every Rule in predicate form that Rule(...) or Rule.from_dict
\* returns, and every one stored after create_rule / update_rule calls, has
\* a non-empty predicate list.
C18_NonEmptyPredicates == ConstructedNonEmpty /\ StoredNonEmpty

\* Rule(...) with predicates=[] returns a Rule with no predicate.
C18_Witness ==
    /\ call.op = "Rule"
    /\ call.args.predicates = Some(<<>>)
    /\ call_result.kind = "ok"
    /\ call_result.value.predicates = Some(<<>>)
    /\ call_result.value.expression = Nothing

\* Rule.from_dict of {"predicates": []} does too.
C18_WitnessFromDict ==
    /\ call.op = "from_dict"
    /\ call_result.kind = "ok"
    /\ call_result.value.predicates = Some(<<>>)

\* The part about stored rules holds: create_rule raises
\* RuleValidationException for predicates=[] and every stored
\* predicate-form rule has a predicate.
C18_StoredPredicatesNonEmpty ==
    /\ StoredNonEmpty
    /\ (call.op = "create_rule" /\ call.args.predicates = Some(<<>>))
           => /\ call_result.kind = "raise"
              /\ call_result.exc.type = "RuleValidationException"

\* create_rule with predicates=[] and nothing else wrong is rejected for
\* that.
C18_WitnessRejected ==
    /\ call.op = "create_rule"
    /\ call.args.predicates = Some(<<>>)
    /\ call.args.expression = Nothing
    /\ call.args.logical_operator = "AND"
    /\ call_result.kind = "raise"
    /\ call_result.exc.type = "RuleValidationException"

\* A predicate-form rule is stored.
C18_WitnessStored ==
    \E i \in 1..Len(file) : "predicates" \in DOMAIN file[i]

\* The step is a call of create_rule or update_rule with an expression
\* that parse_expression rejects.
AuthoredWithRejectedExpression ==
    /\ call'.op \in {"create_rule", "update_rule"}
    /\ call'.args.expression # Nothing
    /\ parse_expression_text(call'.args.expression[1]).kind = "raise"

\* The call raises RuleValidationException and leaves the file as it was.
RejectedAndNothingStored ==
    /\ call_result'.kind = "raise"
    /\ call_result'.exc.type = "RuleValidationException"
    /\ file' = file

Stored(id) == \E i \in 1..Len(file) : file[i].id = id

\* C19 as stated: create_rule and update_rule with an expression that
\* parse_expression rejects raise RuleValidationException and leave the
\* stored rules unchanged.
C19_RejectedExpressionNotStored ==
    [][AuthoredWithRejectedExpression => RejectedAndNothingStored]_vars

\* C19 for create_rule and for update_rule of a stored rule: an expression
\* that parse_expression rejects raises RuleValidationException and leaves
\* the stored rules unchanged; update_rule of an id that is not stored
\* raises RuleNotFoundException whatever the expression, and stores nothing.
C19_RejectedExpressionOfKnownRule ==
    [][AuthoredWithRejectedExpression =>
          IF call'.op = "update_rule" /\ ~Stored(call'.id)
          THEN /\ call_result'.kind = "raise"
               /\ call_result'.exc.type = "RuleNotFoundException"
               /\ file' = file
          ELSE RejectedAndNothingStored]_vars

RejectedExpression ==
    /\ call.op \in {"create_rule", "update_rule"}
    /\ call.args.expression # Nothing
    /\ parse_expression_text(call.args.expression[1]).kind = "raise"

\* update_rule of a stored rule with 'a = 1' and nothing else wrong:
\* RuleValidationException "Invalid expression syntax: ...".
C19_Witness ==
    /\ RejectedExpression
    /\ call.op = "update_rule"
    /\ Stored(call.id)
    /\ call.args.name = "R"
    /\ call.args.predicates = Nothing
    /\ call.args.logical_operator = "AND"
    /\ call_result.kind = "raise"
    /\ call_result.exc.type = "RuleValidationException"

\* create_rule with the cut-off array, on which parse_expression raises
\* IndexError: RuleValidationException "Failed to parse expression: ...".
C19_WitnessCreate ==
    /\ RejectedExpression
    /\ call.op = "create_rule"
    /\ parse_expression_text(call.args.expression[1]).exc.type = "IndexError"
    /\ call.args.name = "R"
    /\ call_result.kind = "raise"
    /\ call_result.exc.type = "RuleValidationException"
    /\ Len(file) > 0

\* update_rule of an id that is not stored, with a rejected expression:
\* RuleNotFoundException.
C19_WitnessNotFound ==
    /\ RejectedExpression
    /\ call.op = "update_rule"
    /\ ~Stored(call.id)
    /\ call_result.kind = "raise"
    /\ call_result.exc.type = "RuleNotFoundException"

(***************************************************************************)
(* Properties of AND / OR in the plain evaluation.                         *)
(***************************************************************************)
\* What the plain evaluation of one comparison gives on the payload.
LeafOutcome(leaf) == _evaluate_comparison(ExpressionEvaluator(payload), leaf).outcome

\* The left operand alone decides the node: false under AND, true under OR.
LeftDecides(node) ==
    /\ node.kind = "BinaryOpNode"
    /\ NoComparisonRaises(node.left, payload)
    /\ TreeValue(node.left, payload) = (node.operator = "OR")

\* The first comparison of the right operand names a field the payload
\* lacks.
RightLacksField(node) == Leaves(node.right)[1].field \notin DOMAIN payload

\* C20: the plain evaluation of 'L AND R' with L false, and of 'L OR R' with
\* L true, on a payload that lacks R's field raises MissingField naming R's
\* field instead of returning the decided boolean; and in any tree the first
\* comparison, in left-to-right order, that raises is the one whose
\* exception evaluate raises, whatever the comparisons before it gave.
C20_RightOperandAlwaysEvaluated ==
    PlainRan =>
        /\ (LeftDecides(ast.value) /\ RightLacksField(ast.value)) =>
               plain_result =
                   Raise(MissingFieldException(Leaves(ast.value.right)[1].field))
        /\ \A i \in 1..Len(Leaves(ast.value)) :
               (/\ LeafOutcome(Leaves(ast.value)[i]).kind = "raise"
                /\ \A j \in 1..(i - 1) : LeafOutcome(Leaves(ast.value)[j]).kind = "ok")
                   => plain_result = LeafOutcome(Leaves(ast.value)[i])

\* 'L AND R' with L false: MissingField for R's field.
C20_Witness ==
    /\ PlainRan
    /\ LeftDecides(ast.value)
    /\ ast.value.operator = "AND"
    /\ ast.value.right.kind = "ComparisonNode"
    /\ RightLacksField(ast.value)
    /\ plain_result.kind = "raise"
    /\ plain_result.exc.type = "MissingFieldException"
    /\ plain_result.exc.field = ast.value.right.field

\* 'L OR R' with L true: MissingField for R's field.
C20_WitnessOr ==
    /\ PlainRan
    /\ LeftDecides(ast.value)
    /\ ast.value.operator = "OR"
    /\ ast.value.right.kind = "ComparisonNode"
    /\ RightLacksField(ast.value)
    /\ plain_result.kind = "raise"
    /\ plain_result.exc.type = "MissingFieldException"
    /\ plain_result.exc.field = ast.value.right.field

\* The same below the root: '(L OR R) AND M' with L true and R's field
\* absent.
C20_WitnessNested ==
    /\ PlainRan
    /\ ast.value.kind = "BinaryOpNode"
    /\ LeftDecides(ast.value.left)
    /\ RightLacksField(ast.value.left)
    /\ plain_result.kind = "raise"
    /\ plain_result.exc.type = "MissingFieldException"
    /\ plain_result.exc.field = Leaves(ast.value.left.right)[1].field

(***************************************************************************)
(* Properties of what evaluation leaves alone.                             *)
(***************************************************************************)
\* The payload the evaluator object holds once evaluate has returned or
\* raised.
PayloadAfter(evaluator) == evaluate(evaluator, ast.value).self.payload

\* C21: a plain evaluation, a tracing evaluation and a rule-level evaluation
\* leave the AST, the payload and the Rule as they were, whether the
\* evaluation returns or raises; the payload the evaluator object holds at
\* the end is the payload it was given.
C21_EvaluationReadOnly ==
    [][/\ ast' = ast
       /\ payload' = payload
       /\ rule' = rule
       /\ ast.kind = "ok" =>
              /\ PayloadAfter(ExpressionEvaluator(payload)) = payload
              /\ PayloadAfter(DetailedExpressionEvaluator(payload)) = payload]_vars

\* A tracing evaluation that ended at a comparison that raised, on a payload
\* that has a field.
C21_Witness ==
    /\ DetailedRan
    /\ detailed_result.kind = "ok"
    /\ Len(Trace) > 0
    /\ "error" \in DOMAIN Trace[Len(Trace)]
    /\ DOMAIN payload # {}
    /\ ast = parse_expression(rule.expression[1])

\* A plain evaluation that raised.
C21_WitnessPlain ==
    /\ PlainRan
    /\ plain_result.kind = "raise"
    /\ DOMAIN payload # {}
    /\ ast = parse_expression(rule.expression[1])

\* A rule-level evaluation of a predicate rule and of an expression rule.
C21_WitnessPredicateRule ==
    /\ evaluation_result.kind # "none"
    /\ ~IsExpressionRule(rule)
    /\ DOMAIN payload # {}

C21_WitnessExpressionRule ==
    /\ evaluation_result.kind # "none"
    /\ IsExpressionRule(rule)
    /\ DOMAIN payload # {}

(***************************************************************************)
(* SpecInterleaved: tracing evaluations whose steps interleave.  Each      *)
(* evaluation is one call of evaluate_expression_detailed: it constructs   *)
(* its DetailedExpressionEvaluator, evaluates the comparisons of its tree  *)
(* from left to right, each one appending to the evaluator's               *)
(* comparison_results list, and returns.  lists holds every                *)
(* comparison_results list allocated so far; an evaluator refers to its    *)
(* list by its index.                                                      *)
(***************************************************************************)
MaxEvaluations == 2

InterleavedTrees == Trees(1) \cup Trees(2)

\* The empty payload and three payloads with age and tag: on ('x', 'x') the
\* comparison age >= 18 raises TypeMismatch.
InterleavedPayloads ==
    {p \in Payloads :
        \/ DOMAIN p = {}
        \/ /\ DOMAIN p = {"age", "tag"}
           /\ <<p.age, p.tag>> \in {<<Int_(17), Str_("x")>>, <<Int_(25), Str_("z")>>,
                                    <<Str_("x"), Str_("x")>>}}

\* An __init__ that hands every evaluator the one list of the class.
SharedComparisonResults(lists_) ==
    IF Len(lists_) = 0 THEN [lists |-> <<<<>>>>, comparison_results |-> 1]
    ELSE [lists |-> lists_, comparison_results |-> 1]

\* DetailedExpressionEvaluator.__init__: self.comparison_results = [], a new
\* list.
DetailedExpressionEvaluator_init(lists_) ==
    [lists |-> Append(lists_, <<>>), comparison_results |-> Len(lists_) + 1]

\* The evaluator object of an evaluation, with the list it refers to.
EvaluatorOf(evaluation) ==
    [class |-> "DetailedExpressionEvaluator", payload |-> evaluation.payload,
     comparison_results |-> lists[evaluation.evaluator]]

\* What _evaluate_binary_op makes of the results of the comparisons below a
\* node, given in left-to-right order.
RECURSIVE NodeValue(_, _)
NodeValue(node, passed) ==
    IF node.kind = "ComparisonNode" THEN passed[1]
    ELSE LET n == Len(Leaves(node.left))
             left_result == NodeValue(node.left, SubSeq(passed, 1, n))
             right_result == NodeValue(node.right, SubSeq(passed, n + 1, Len(passed)))
         IN  IF node.operator = "AND" THEN left_result /\ right_result
             ELSE left_result \/ right_result

InitInterleaved ==
    /\ evaluations \in [1..MaxEvaluations ->
           [ast : InterleavedTrees, payload : InterleavedPayloads, pc : {"start"},
            evaluator : {0}, passed : {<<>>}, result : {FALSE}]]
    /\ lists = <<>>
    /\ threads = Unused
    /\ file = Unused
    /\ call = Unused
    /\ call_result = Unused
    /\ tokens = Unused
    /\ parse_result = Unused
    /\ rule = Unused
    /\ payload = Unused
    /\ ast = Unused
    /\ plain_result = Unused
    /\ detailed_result = Unused
    /\ evaluation_result = Unused
    /\ store = Unused
    /\ rule_ids = Unused
    /\ response = Unused
    /\ text = Unused
    /\ tokenize_result = Unused
    /\ parse_expression_result = Unused

interleavedOther == <<threads, ruleVars, textVars, tokens, parse_result, rule, payload, ast,
                      plain_result, detailed_result, evaluation_result, store, rule_ids,
                      response>>

\* evaluator = DetailedExpressionEvaluator(payload)
Construct(e) ==
    /\ evaluations[e].pc = "start"
    /\ LET constructed(r) ==
               /\ lists' = r.lists
               /\ evaluations' = [evaluations EXCEPT ![e].evaluator = r.comparison_results,
                                                     ![e].pc = "evaluate"]
       IN  constructed(DetailedExpressionEvaluator_init(lists))
    /\ UNCHANGED interleavedOther

\* The next comparison of the tree: _evaluate_comparison_with_tracking.  An
\* exception leaves evaluate and is caught in evaluate_expression_detailed,
\* which returns False and the evaluator's list.
Compare(e) ==
    /\ evaluations[e].pc = "evaluate"
    /\ Len(evaluations[e].passed) < Len(Leaves(evaluations[e].ast))
    /\ LET compared(r) ==
               /\ lists' = [lists EXCEPT ![evaluations[e].evaluator] =
                                r.self.comparison_results]
               /\ evaluations' =
                      IF r.outcome.kind = "ok"
                      THEN [evaluations EXCEPT ![e].passed = Append(@, r.outcome.value)]
                      ELSE [evaluations EXCEPT ![e].result = FALSE, ![e].pc = "returned"]
       IN  compared(_evaluate_comparison_with_tracking(
                        EvaluatorOf(evaluations[e]),
                        Leaves(evaluations[e].ast)[Len(evaluations[e].passed) + 1]))
    /\ UNCHANGED interleavedOther

\* return result, evaluator.get_comparison_results()
Return(e) ==
    /\ evaluations[e].pc = "evaluate"
    /\ Len(evaluations[e].passed) = Len(Leaves(evaluations[e].ast))
    /\ evaluations' = [evaluations EXCEPT
                           ![e].result = NodeValue(evaluations[e].ast, evaluations[e].passed),
                           ![e].pc = "returned"]
    /\ UNCHANGED <<lists, interleavedOther>>

NextInterleaved == \E e \in 1..MaxEvaluations : Construct(e) \/ Compare(e) \/ Return(e)

SpecInterleaved == InitInterleaved /\ [][NextInterleaved]_vars

(***************************************************************************)
(* Properties of interleaved tracing evaluations.                          *)
(***************************************************************************)
\* What an evaluation has handed back: the result and the list its evaluator
\* refers to.
Returned(e) ==
    Ok([result |-> evaluations[e].result,
        comparison_results |-> lists[evaluations[e].evaluator]])

AllReturned == \A e \in 1..MaxEvaluations : evaluations[e].pc = "returned"

\* C22: when tracing evaluations run with their steps interleaved in any
\* order, each returns the (result, trace) it returns when run alone, and
\* the evaluators share no comparison_results list.
C22_InterleavedAsAlone ==
    /\ \A e \in 1..MaxEvaluations :
           evaluations[e].pc = "returned" =>
               Returned(e) = evaluate_expression_detailed(evaluations[e].ast,
                                                          evaluations[e].payload)
    /\ \A e1, e2 \in 1..MaxEvaluations :
           (e1 # e2 /\ evaluations[e1].evaluator # 0) =>
               evaluations[e1].evaluator # evaluations[e2].evaluator

\* Two evaluations have returned, of different trees on different payloads,
\* the second having been constructed before the first had finished, each
\* with a trace of two entries.
C22_Witness ==
    /\ AllReturned
    /\ evaluations[1].ast # evaluations[2].ast
    /\ evaluations[1].payload # evaluations[2].payload
    /\ Len(Returned(1).value.comparison_results) = 2
    /\ Len(Returned(2).value.comparison_results) = 2
    /\ Returned(1).value.comparison_results # Returned(2).value.comparison_results

\* Two evaluations of the same tree on the same payload, one of them still
\* running after the other has returned.
C22_WitnessSameTree ==
    /\ evaluations[1].ast = evaluations[2].ast
    /\ evaluations[1].payload = evaluations[2].payload
    /\ evaluations[1].pc = "returned"
    /\ evaluations[2].pc = "evaluate"
    /\ Len(lists[evaluations[2].evaluator]) = 1
    /\ Len(Returned(1).value.comparison_results) = 2

(***************************************************************************)
(* SpecReason: one call of ReasonGenerator.generate_reason for an 'in' or  *)
(* 'not_in' comparison of the field tag against a list.                    *)
(***************************************************************************)
MaxElements == 5

\* The lists of up to MaxElements elements, each 1 or 'x'.
ExpectedLists ==
    UNION {{List_(s) : s \in [1..n -> {Int_(1), Str_("x")}]} : n \in 0..MaxElements}

ReasonArguments ==
    [field : {"tag"}, operator : {"in", "not_in"}, expected_value : ExpectedLists,
     actual_value : {Str_("x"), Str_("z")}, passed : BOOLEAN]

InitReason ==
    /\ call = NoCall
    /\ call_result = NotRun
    /\ file = Unused
    /\ evaluations = Unused
    /\ lists = Unused
    /\ threads = Unused
    /\ tokens = Unused
    /\ parse_result = Unused
    /\ rule = Unused
    /\ payload = Unused
    /\ ast = Unused
    /\ plain_result = Unused
    /\ detailed_result = Unused
    /\ evaluation_result = Unused
    /\ store = Unused
    /\ rule_ids = Unused
    /\ response = Unused
    /\ text = Unused
    /\ tokenize_result = Unused
    /\ parse_expression_result = Unused

\* ReasonGenerator.generate_reason(field, operator, expected_value,
\* actual_value, passed)
GenerateReason ==
    /\ \E args \in ReasonArguments :
           /\ call' = [op |-> "generate_reason", args |-> args]
           /\ call_result' = Ok(generate_reason(args.field, args.operator,
                                                args.expected_value, args.actual_value,
                                                args.passed, FALSE, None))
    /\ UNCHANGED <<file, otherVars>>

NextReason == GenerateReason

SpecReason == InitReason /\ [][NextReason]_vars

(***************************************************************************)
(* Properties of the failure reasons of in / not_in.                       *)
(***************************************************************************)
FailureReasonOfList ==
    /\ call.op = "generate_reason"
    /\ ~call.args.passed

Elements == call.args.expected_value.v

\* An element as the list rendering shows it: a string in quotes.
Rendered(x) == IF x.t = "str" THEN "'" \o x.v \o "'" ELSE ToString(x.v)

\* n elements rendered one after the other, separated by ', '.
RECURSIVE RenderedFirst(_)
RenderedFirst(n) ==
    IF n = 0 THEN ""
    ELSE IF n = 1 THEN Rendered(Elements[1])
    ELSE RenderedFirst(n - 1) \o ", " \o Rendered(Elements[n])

\* How the reason shows the expected list.
ExpectedRendering ==
    IF Len(Elements) <= 3 THEN "[" \o RenderedFirst(Len(Elements)) \o "]"
    ELSE "[" \o RenderedFirst(3) \o ", ... and " \o ToString(Len(Elements) - 3) \o " more]"

C23_WitnessThree ==
    /\ FailureReasonOfList
    /\ call.args.operator = "not_in"
    /\ Elements = <<Str_("x"), Int_(1), Int_(1)>>
    /\ call.args.actual_value = Str_("x")
    /\ call_result.value = "Expected tag to not be in ['x', 1, 1] but it was 'x'"

\* not_in against four elements: three and 'and 1 more'.
C23_WitnessFour ==
    /\ FailureReasonOfList
    /\ call.args.operator = "not_in"
    /\ Len(Elements) = 4
    /\ call_result.value = "Expected tag to not be in [1, 1, 'x', ... and 1 more] but it was 'x'"

(***************************************************************************)
(* Properties of extract_fields_from_ast.                                  *)
(***************************************************************************)
\* The field names of a tree: the left field of every comparison and the
\* right-hand field of every field-to-field comparison.
RECURSIVE FieldSet(_)
FieldSet(node) ==
    IF node.kind = "BinaryOpNode" THEN FieldSet(node.left) \cup FieldSet(node.right)
    ELSE IF node.is_field_comparison THEN {node.field, node.value.v}
    ELSE {node.field}

\* The literal right-hand strings of a tree.
RECURSIVE LiteralStrings(_)
LiteralStrings(node) ==
    IF node.kind = "BinaryOpNode"
    THEN LiteralStrings(node.left) \cup LiteralStrings(node.right)
    ELSE IF ~node.is_field_comparison /\ node.value.t = "str" THEN {node.value.v}
    ELSE {}

NoDuplicates(s) == \A i, j \in 1..Len(s) : s[i] = s[j] => i = j

\* C24: for the tree of the rule under evaluation and whatever the iteration
\* order of the set, extract_fields_from_ast returns a list without
\* duplicates whose elements are exactly the left fields of the comparisons
\* and the right-hand fields of the field-to-field comparisons; a literal
\* right-hand value is in it only if it is also such a field.
C24_ExtractedFields ==
    (IsExpressionRule(rule) /\ ast.kind = "ok") =>
        \A hash_order \in HashOrders :
            /\ NoDuplicates(extract_fields_from_ast(ast.value, hash_order))
            /\ Range(extract_fields_from_ast(ast.value, hash_order)) = FieldSet(ast.value)
            /\ \A s \in LiteralStrings(ast.value) \ FieldSet(ast.value) :
                   s \notin Range(extract_fields_from_ast(ast.value, hash_order))

\* The rule-level evaluation of a tree of three comparisons that names age
\* twice and has the literal 'x'.
C24_Witness ==
    /\ evaluation_result.kind # "none"
    /\ IsExpressionRule(rule)
    /\ ast.kind = "ok"
    /\ Len(FieldsInOrder(ast.value)) = 3
    /\ FieldSet(ast.value) = {"age", "tag"}
    /\ "x" \in LiteralStrings(ast.value)

\* The rule-level evaluation of the field-to-field comparison age < lim.
C24_WitnessFieldToField ==
    /\ evaluation_result.kind # "none"
    /\ IsExpressionRule(rule)
    /\ ast.kind = "ok"
    /\ ast.value.kind = "ComparisonNode"
    /\ ast.value.is_field_comparison
    /\ FieldSet(ast.value) = {"age", "lim"}

(***************************************************************************)
(* Properties of the plain and the tracing evaluator together.             *)
(***************************************************************************)
Plain == evaluate_expression(ast.value, payload)
Detailed == evaluate_expression_detailed(ast.value, payload)

\* The place, in left-to-right order, of the first comparison of the tree
\* that raises in the plain evaluator; 0 when none does.
FirstRaisingLeaf ==
    LET raising == {i \in 1..Len(Leaves(ast.value)) :
                       LeafOutcome(Leaves(ast.value)[i]).kind = "raise"}
    IN  IF raising = {} THEN 0 ELSE CHOOSE i \in raising : \A j \in raising : i <= j

\* The tracing evaluation gives the boolean of the plain one, with a trace
\* whose passed flags are the plain results of the comparisons.
AgreeOnResult(p, d) ==
    p.kind = "ok" =>
        /\ d.kind = "ok"
        /\ d.value.result = p.value
        /\ Len(d.value.comparison_results) = Len(Leaves(ast.value))
        /\ \A i \in 1..Len(Leaves(ast.value)) :
               /\ "error" \notin DOMAIN d.value.comparison_results[i]
               /\ Ok(d.value.comparison_results[i].passed) = LeafOutcome(Leaves(ast.value)[i])

\* Where the plain evaluation raises MissingField or TypeMismatch, the
\* tracing one returns False and a trace that ends with the entry of the
\* comparison that raised, carrying the message of the exception.
AgreeOnError(p, d) ==
    (p.kind = "raise" /\ p.exc.type \in {"MissingFieldException", "TypeMismatchException"}) =>
        /\ d.kind = "ok"
        /\ d.value.result = FALSE
        /\ FirstRaisingLeaf > 0
        /\ p = LeafOutcome(Leaves(ast.value)[FirstRaisingLeaf])
        /\ Len(d.value.comparison_results) = FirstRaisingLeaf
        /\ LET last == d.value.comparison_results[FirstRaisingLeaf]
               leaf == Leaves(ast.value)[FirstRaisingLeaf]
           IN  /\ last.field = leaf.field
               /\ last.operator = leaf.operator
               /\ last.compared_field = (IF leaf.is_field_comparison THEN leaf.value ELSE None)
               /\ ~last.passed
               /\ "error" \in DOMAIN last
               /\ last.error = p.exc.message

\* C25: the evaluation that has run agrees with the other evaluator on the
\* same tree and payload: a boolean of the plain evaluator is the result of
\* the tracing one, whose trace has the plain result of each comparison; a
\* MissingField or TypeMismatch of the plain evaluator is (False, trace) in
\* the tracing one, the last entry being the one of the comparison that
\* raised, with the same message.
C25_PlainAndTracingAgree ==
    /\ PlainRan => /\ plain_result = Plain
                   /\ AgreeOnResult(plain_result, Detailed)
                   /\ AgreeOnError(plain_result, Detailed)
    /\ DetailedRan => /\ detailed_result = Detailed
                      /\ AgreeOnResult(Plain, detailed_result)
                      /\ AgreeOnError(Plain, detailed_result)

\* The tracing evaluation of a tree whose second comparison raises
\* TypeMismatch in the plain evaluator.
C25_Witness ==
    /\ DetailedRan
    /\ Plain.kind = "raise"
    /\ Plain.exc.type = "TypeMismatchException"
    /\ FirstRaisingLeaf = 2
    /\ Len(Trace) = 2
    /\ Trace[2].error = Plain.exc.message

\* The plain evaluation of a field-to-field comparison whose right-hand
\* field is absent.
C25_WitnessMissingField ==
    /\ PlainRan
    /\ plain_result.kind = "raise"
    /\ plain_result.exc.type = "MissingFieldException"
    /\ ast.value.kind = "ComparisonNode"
    /\ ast.value.is_field_comparison
    /\ plain_result.exc.field = ast.value.value.v
    /\ Detailed.value.comparison_results[1].error = plain_result.exc.message

\* A plain evaluation that returned true for a tree of three comparisons of
\* which one failed.
C25_WitnessBoolean ==
    /\ PlainRan
    /\ plain_result = Ok(TRUE)
    /\ Len(Detailed.value.comparison_results) = 3
    /\ \E i \in 1..3 : ~Detailed.value.comparison_results[i].passed

(***************************************************************************)
(* Properties of the tokenizer's outcomes.                                 *)
(***************************************************************************)
\* The token sequence has one Eof token, the last one, placed at the end of
\* the text.
EndsWithOnlyEof(ts) ==
    /\ Len(ts) > 0
    /\ ts[Len(ts)].type = "EOF"
    /\ ts[Len(ts)].position = Len(text)
    /\ \A i \in 1..(Len(ts) - 1) : ts[i].type # "EOF"

\* The text has a '[' with no ']' after it and ends with a space.
CutOffArray ==
    /\ Len(text) > 0
    /\ text[Len(text)] = " "
    /\ \E i \in 1..Len(text) :
           /\ text[i] = "["
           /\ \A j \in (i + 1)..Len(text) : text[j] # "]"

\* C26: tokenize either returns a token sequence with exactly one Eof token,
\* in last position, or fails with a ValueError; no text makes it fail with
\* another error or read past the end of the text.
C26_TokenizerTotal ==
    TextRan =>
        \/ Tokenized /\ EndsWithOnlyEof(tokenize_result.value)
        \/ tokenize_result.kind = "raise" /\ tokenize_result.exc.type = "ValueError"

\* 'a in [1, ': the array reader looks at the character behind the end of
\* the text, and tokenize fails with IndexError.
C26_Witness ==
    /\ TextRan
    /\ text = <<"a", " ", "i", "n", " ", "[", "1", ",", " ">>
    /\ tokenize_result.kind = "raise"
    /\ tokenize_result.exc.type = "IndexError"
    /\ parse_expression_result = tokenize_result

\* But for the array that is cut off after a space, the two outcomes are the
\* only ones: a token sequence ending with its only Eof token, or a
\* ValueError; the IndexError is raised for cut-off arrays only.
C26_TotalButForCutOffArray ==
    TextRan =>
        \/ Tokenized /\ EndsWithOnlyEof(tokenize_result.value)
        \/ tokenize_result.kind = "raise" /\ tokenize_result.exc.type = "ValueError"
        \/ /\ tokenize_result.kind = "raise"
           /\ tokenize_result.exc = IndexError
           /\ CutOffArray

\* A text that is tokenized, with an array among its tokens.
C26_WitnessTokenized ==
    /\ TextRan
    /\ Tokenized
    /\ EndsWithOnlyEof(tokenize_result.value)
    /\ \E i \in 1..Len(tokenize_result.value) :
           tokenize_result.value[i].value = List_(<<Int_(1), Int_(2)>>)

\* A cut-off array that is followed by more text is tokenized: 'a in [1, )'
\* gives the list [1, ')'].
C26_WitnessCutOffTokenized ==
    /\ TextRan
    /\ Tokenized
    /\ text = <<"a", " ", "i", "n", " ", "[", "1", ",", " ", ")">>
    /\ tokenize_result.value[3].value = List_(<<Int_(1), Str_(")")>>)

(***************************************************************************)
(* SpecThreads: calls on one FileRuleRepository that run concurrently.     *)
(* The lock of the repository is held inside _read_rules and inside        *)
(* _write_rules, so each of the two is one step; what a call does between  *)
(* them it does on its own list of rules.  A thread is one call:           *)
(* FileRuleRepository.create(rule), RuleService.update_rule(rule_id, ...)  *)
(* or FileRuleRepository.delete(rule_id).                                  *)
(***************************************************************************)
MaxThreads == 2

\* The file at the start: one rule, id1.
StoredRule == Rule("id1", "R", "", Nothing, Some(GoodExpression), "AND").value

InitialFile == _write_rules(<<StoredRule>>)

\* The rule thread t creates: id2 for thread 1, id3 for thread 2.
NewRule(t) ==
    Rule(IF t = 1 THEN "id2" ELSE "id3", "N", "", Nothing, Some(GoodExpression), "AND").value

\* What update_rule is called with besides the id: a new name.
UpdateArguments ==
    [name |-> "S", description |-> "", predicates |-> Nothing,
     expression |-> Some(GoodExpression), logical_operator |-> "AND"]

\* The calls thread t can make.
Calls(t) ==
    {[op |-> "create", rule_id |-> NewRule(t).id, rule |-> Some(NewRule(t)), pc |-> "read",
      rules |-> <<>>, outcome |-> NotRun],
     [op |-> "update_rule", rule_id |-> "id1", rule |-> Nothing, pc |-> "get_by_id",
      rules |-> <<>>, outcome |-> NotRun],
     [op |-> "update_rule", rule_id |-> "id2", rule |-> Nothing, pc |-> "get_by_id",
      rules |-> <<>>, outcome |-> NotRun],
     [op |-> "delete", rule_id |-> "id1", rule |-> Nothing, pc |-> "read",
      rules |-> <<>>, outcome |-> NotRun]}

InitThreads ==
    /\ file = InitialFile
    /\ threads \in {th \in [1..MaxThreads -> UNION {Calls(t) : t \in 1..MaxThreads}] :
                       \A t \in 1..MaxThreads : th[t] \in Calls(t)}
    /\ call = Unused
    /\ call_result = Unused
    /\ evaluations = Unused
    /\ lists = Unused
    /\ tokens = Unused
    /\ parse_result = Unused
    /\ rule = Unused
    /\ payload = Unused
    /\ ast = Unused
    /\ plain_result = Unused
    /\ detailed_result = Unused
    /\ evaluation_result = Unused
    /\ store = Unused
    /\ rule_ids = Unused
    /\ response = Unused
    /\ text = Unused
    /\ tokenize_result = Unused
    /\ parse_expression_result = Unused

threadsOther == <<call, call_result, evaluations, lists, textVars, tokens, parse_result, rule,
                  payload, ast, plain_result, detailed_result, evaluation_result, store,
                  rule_ids, response>>

\* The places of the rules with the id in a list of rules.
Places(rules, rule_id) == {i \in 1..Len(rules) : rules[i].id = rule_id}

\* RuleService.update_rule up to its call of repository.update: get_by_id,
\* which reads the file, then the validation and Rule(...).
GetById(t) ==
    /\ threads[t].pc = "get_by_id"
    /\ LET built(r) ==
               IF r.kind = "raise"
               THEN [threads EXCEPT ![t].outcome = r, ![t].pc = "returned"]
               ELSE [threads EXCEPT ![t].rule = Some(r.value), ![t].pc = "read"]
           validated(v) ==
               IF v.kind = "raise"
               THEN [threads EXCEPT ![t].outcome = v, ![t].pc = "returned"]
               ELSE built(_build_rule(threads[t].rule_id, UpdateArguments.name,
                                      UpdateArguments.description, UpdateArguments.predicates,
                                      UpdateArguments.expression,
                                      UpdateArguments.logical_operator))
           looked_up(rules) ==
               IF rules.kind = "raise"
               THEN [threads EXCEPT ![t].outcome = rules, ![t].pc = "returned"]
               ELSE IF get_by_id(rules.value, threads[t].rule_id) = Nothing
               THEN [threads EXCEPT
                         ![t].outcome = Raise(RuleNotFoundException(threads[t].rule_id)),
                         ![t].pc = "returned"]
               ELSE validated(_validate_rule_data(UpdateArguments.name,
                                                  UpdateArguments.predicates,
                                                  UpdateArguments.expression,
                                                  UpdateArguments.logical_operator))
       IN  threads' = looked_up(_read_rules(file))
    /\ UNCHANGED <<file, threadsOther>>

\* rules = self._read_rules() and what create, update and delete do to their
\* list before they write it: append the rule, replace the first rule with
\* the id, drop the rules with the id.  update and delete return without
\* writing when there is no rule with the id.
Read(t) ==
    /\ threads[t].pc = "read"
    /\ LET read(rules) ==
               IF rules.kind = "raise"
               THEN [threads EXCEPT ![t].outcome = rules, ![t].pc = "returned"]
               ELSE IF threads[t].op = "create"
               THEN [threads EXCEPT ![t].rules = Append(rules.value, threads[t].rule[1]),
                                    ![t].pc = "write"]
               ELSE IF Places(rules.value, threads[t].rule_id) = {}
               THEN [threads EXCEPT
                         ![t].outcome = IF threads[t].op = "delete" THEN Ok(FALSE)
                                        ELSE Ok(threads[t].rule[1]),
                         ![t].pc = "returned"]
               ELSE IF threads[t].op = "delete"
               THEN LET kept(r) == r.id # threads[t].rule_id
                    IN  [threads EXCEPT ![t].rules = SelectSeq(rules.value, kept),
                                        ![t].pc = "write"]
               ELSE LET places == Places(rules.value, threads[t].rule_id)
                        i == CHOOSE i \in places : \A j \in places : i <= j
                    IN  [threads EXCEPT
                             ![t].rules = [rules.value EXCEPT ![i] = threads[t].rule[1]],
                             ![t].pc = "write"]
       IN  threads' = read(_read_rules(file))
    /\ UNCHANGED <<file, threadsOther>>

\* self._write_rules(rules), and the return.
Write(t) ==
    /\ threads[t].pc = "write"
    /\ file' = _write_rules(threads[t].rules)
    /\ threads' = [threads EXCEPT
                       ![t].outcome = IF threads[t].op = "delete" THEN Ok(TRUE)
                                      ELSE Ok(threads[t].rule[1]),
                       ![t].pc = "returned"]
    /\ UNCHANGED threadsOther

NextThreads == \E t \in 1..MaxThreads : GetById(t) \/ Read(t) \/ Write(t)

SpecThreads == InitThreads /\ [][NextThreads]_vars

(***************************************************************************)
(* Properties of concurrent calls on the repository.                       *)
(***************************************************************************)
InFile(r) == \E i \in 1..Len(file) : file[i] = Rule_to_dict(r)

BothCreated ==
    /\ \A t \in 1..MaxThreads : threads[t].op = "create" /\ threads[t].pc = "returned"

\* C27: when two create calls with distinct rules run concurrently, in any
\* interleaving of their read and write steps, both rules are in the file
\* after both calls have returned, together with the rule that was there
\* before.
C27_NoRuleLost ==
    BothCreated =>
        /\ \A t \in 1..MaxThreads : InFile(NewRule(t))
        /\ InFile(StoredRule)

\* Both create calls have returned their rule, and the file holds the
\* stored rule and the rule of thread 2 only: thread 1 wrote between the
\* read and the write of thread 2.
C27_Witness ==
    /\ BothCreated
    /\ threads[1].outcome = Ok(NewRule(1))
    /\ threads[2].outcome = Ok(NewRule(2))
    /\ file = _write_rules(<<StoredRule, NewRule(2)>>)

\* What does hold: after both calls have returned, the file holds the stored
\* rule first and then the created rules in some order, at least one of
\* them, the last one being the rule of the call that wrote last.
C27_LastWriterKept ==
    BothCreated =>
        file \in {_write_rules(<<StoredRule, NewRule(1)>>),
                  _write_rules(<<StoredRule, NewRule(2)>>),
                  _write_rules(<<StoredRule, NewRule(1), NewRule(2)>>),
                  _write_rules(<<StoredRule, NewRule(2), NewRule(1)>>)}

\* Both rules are in the file when one call returned before the other read.
C27_WitnessBothKept ==
    /\ BothCreated
    /\ file = _write_rules(<<StoredRule, NewRule(1), NewRule(2)>>)


\* The file with the first dict of the rule's id replaced by the rule, or
\* Nothing when the file has no dict of that id.
Replaced(file_, r) ==
    LET places == {i \in 1..Len(file_) : file_[i].id = r.id}
        first == CHOOSE i \in places : \A j \in places : i <= j
    IN  IF places = {} THEN Nothing
        ELSE Some([file_ EXCEPT ![first] = Rule_to_dict(r)])

\* Thread t returns from update_rule in this step.
UpdateReturns(t) ==
    /\ threads[t].op = "update_rule"
    /\ threads[t].pc # "returned"
    /\ threads'[t].pc = "returned"

\* C28: when update_rule returns a Rule, a rule of that id was in the file
\* and the file is now what it was with that rule replaced by the returned
\* one, at its place and with every other rule as it was, in every
\* interleaving with the calls of the other thread; update_rule of an id
\* that is not in the file raises RuleNotFoundException and changes nothing.
C28_UpdateReplacesOne ==
    [][\A t \in 1..MaxThreads :
           UpdateReturns(t) =>
               IF threads'[t].outcome.kind = "ok"
               THEN /\ threads'[t].outcome.value.id = threads[t].rule_id
                    /\ Replaced(file, threads'[t].outcome.value) = Some(file')
               ELSE /\ threads'[t].outcome.exc.type = "RuleNotFoundException"
                    /\ \A i \in 1..Len(file) : file[i].id # threads[t].rule_id
                    /\ file' = file]_vars

\* Thread 1 has created its rule and thread 2 has updated the stored rule,
\* both have returned their rule, and the file holds the updated rule only:
\* update_rule read the file before create wrote it and wrote it afterwards.
C28_Witness ==
    /\ threads[1].op = "create"
    /\ threads[1].outcome = Ok(NewRule(1))
    /\ threads[2].op = "update_rule"
    /\ threads[2].pc = "returned"
    /\ threads[2].outcome.kind = "ok"
    /\ threads[2].outcome.value.name = UpdateArguments.name
    /\ file = _write_rules(<<threads[2].outcome.value>>)

\* update_rule returns the Rule although delete has removed the rule of
\* that id after get_by_id found it: the thread is about to read a file
\* that no longer has the rule.
C28_WitnessDeleted ==
    /\ threads[1].op = "delete"
    /\ threads[1].outcome = Ok(TRUE)
    /\ threads[2].op = "update_rule"
    /\ threads[2].pc = "read"
    /\ file = <<>>

\* What holds in every interleaving: update_rule of an id that get_by_id does
\* not find raises RuleNotFoundException and leaves the file as it is, and
\* an update_rule that writes leaves a file with its rule in it.
C28_UnknownIdChangesNothing ==
    [][\A t \in 1..MaxThreads :
           UpdateReturns(t) =>
               IF threads'[t].outcome.kind = "ok"
               THEN threads[t].pc = "write" =>
                        \E i \in 1..Len(file') : file'[i] = Rule_to_dict(threads'[t].outcome.value)
               ELSE /\ threads'[t].outcome = Raise(RuleNotFoundException(threads[t].rule_id))
                    /\ \A i \in 1..Len(file) : file[i].id # threads[t].rule_id
                    /\ file' = file]_vars

C28_WitnessUnknownId ==
    /\ threads[1].op = "update_rule"
    /\ threads[1].rule_id = "id2"
    /\ threads[1].outcome = Raise(RuleNotFoundException("id2"))
    /\ threads[2].pc = "returned"
    /\ file = InitialFile

\* What holds when the calls run one after the other (SpecRules): the file
\* after update_rule returned a Rule is the file before with the first rule
\* of the id replaced by the returned Rule, and update_rule of an id that is
\* not stored raises RuleNotFoundException and leaves the file as it is.
C28_SequentialUpdate ==
    [][call'.op = "update_rule" =>
          IF Stored(call'.id)
          THEN call_result'.kind = "ok" =>
                   /\ call_result'.value.id = call'.id
                   /\ Replaced(file, call_result'.value) = Some(file')
          ELSE /\ call_result' = Raise(RuleNotFoundException(call'.id))
               /\ file' = file]_vars

\* update_rule has replaced the second of two stored rules.
C28_WitnessSequential ==
    /\ call.op = "update_rule"
    /\ call_result.kind = "ok"
    /\ Len(file) = 2
    /\ file[2] = Rule_to_dict(call_result.value)
    /\ file[1].id # call.id


\* The rule a call has constructed or created.
Made ==
    /\ call.op \in {"Rule", "create_rule"}
    /\ call_result.kind = "ok"

\* The rule of the id as _read_rules gives it from the file.
ReadBack(id) ==
    LET found(rules) == IF rules.kind = "raise" THEN Nothing ELSE get_by_id(rules.value, id)
    IN  found(_read_rules(file))

\* C29: for every valid Rule r, in predicate form or in expression form,
\* with either logical_operator, Rule.from_dict(r.to_dict()) equals r in
\* every field, and the rule read back from the file after create_rule
\* equals the rule create_rule returned.
C29_RoundTrip ==
    Made =>
        /\ Rule_from_dict(Rule_to_dict(call_result.value)) = Ok(call_result.value)
        /\ call.op = "create_rule" => ReadBack(call_result.value.id) = Some(call_result.value)

\* create_rule has returned a rule in expression form with logical_operator
\* "OR"; the rule read back from the file has "AND".
C29_Witness ==
    /\ call.op = "create_rule"
    /\ call_result.kind = "ok"
    /\ call_result.value.predicates = Nothing
    /\ call_result.value.logical_operator = "OR"
    /\ ReadBack(call_result.value.id) # Nothing
    /\ ReadBack(call_result.value.id)[1] = [call_result.value EXCEPT !.logical_operator = "AND"]

\* What holds: the round trip gives r in every field but logical_operator,
\* which is kept for a rule with predicates and is "AND" for a rule without.
C29_RoundTripButOperator ==
    Made =>
        LET r == call_result.value
            kept == IF r.predicates # Nothing THEN r ELSE [r EXCEPT !.logical_operator = "AND"]
        IN  /\ Rule_from_dict(Rule_to_dict(r)) = Ok(kept)
            /\ call.op = "create_rule" => ReadBack(r.id) = Some(kept)

\* A rule in predicate form with "OR" is read back as it was created.
C29_WitnessPredicateForm ==
    /\ call.op = "create_rule"
    /\ call_result.kind = "ok"
    /\ call_result.value.predicates # Nothing
    /\ call_result.value.predicates[1] # <<>>
    /\ call_result.value.logical_operator = "OR"
    /\ ReadBack(call_result.value.id) = Some(call_result.value)

\* Rule(...) in expression form with "OR": from_dict(to_dict(r)) has "AND".
C29_WitnessConstructed ==
    /\ call.op = "Rule"
    /\ call_result.kind = "ok"
    /\ call_result.value.expression # Nothing
    /\ call_result.value.logical_operator = "OR"
    /\ Rule_from_dict(Rule_to_dict(call_result.value)).kind = "ok"
    /\ Rule_from_dict(Rule_to_dict(call_result.value)).value.logical_operator = "AND"


(***************************************************************************)
(* Properties of the resolution of rule ids by EvaluationService.evaluate. *)
(***************************************************************************)
\* The i-th rule id of the request is a UUID and a rule of that id is stored.
Resolves(i) ==
    /\ UUID(rule_ids[i]).kind = "ok"
    /\ get_by_id(store, UUID(rule_ids[i]).value) # Nothing

Unresolved == {i \in 1..Len(rule_ids) : ~Resolves(i)}

\* The exception of the first rule id that does not resolve.
ResolutionError ==
    LET i == CHOOSE i \in Unresolved : \A j \in Unresolved : i <= j
    IN  IF UUID(rule_ids[i]).kind = "raise"
        THEN EvaluationException("Invalid UUID format: " \o rule_ids[i])
        ELSE RuleNotFoundException(rule_ids[i])

\* C30: evaluate resolves every rule id before it evaluates a rule.  With no
\* rule id it raises EvaluationException; with a rule id that does not
\* resolve it raises the exception of the first such id, EvaluationException
\* for a string that is no UUID and RuleNotFoundException for the id of no
\* stored rule, whatever the rules of the other ids would give; no
\* EvaluationResponse is returned, and the store is as it was.  With every
\* id resolved an EvaluationResponse is returned.
C30_AllOrNothing ==
    [][response' # response =>
          /\ store' = store
          /\ IF rule_ids = <<>>
             THEN response' = Raise(EvaluationException("At least one rule_id must be provided"))
             ELSE IF Unresolved # {}
             THEN response' = Raise(ResolutionError)
             ELSE /\ response'.kind = "ok"
                  /\ Len(response'.value.details) = Len(rule_ids)]_vars

\* Two stored rules are named before the id of no stored rule: the request
\* raises RuleNotFoundException for the third id.
C30_Witness ==
    /\ rule_ids = <<"id1", "id2", "id3">>
    /\ response = Raise(RuleNotFoundException("id3"))

\* A stored rule is named before a string that is no UUID.
C30_WitnessInvalidUuid ==
    /\ rule_ids = <<"ID1", "bad">>
    /\ response.kind = "raise"
    /\ response.exc.type = "EvaluationException"
    /\ response.exc.message = "Invalid UUID format: bad"

\* No rule id.
C30_WitnessEmpty ==
    /\ rule_ids = <<>>
    /\ response.kind = "raise"
    /\ response.exc.type = "EvaluationException"

\* The id of no stored rule before a string that is no UUID: the first
\* decides.
C30_WitnessFirstDecides ==
    /\ rule_ids = <<"id3", "bad">>
    /\ response = Raise(RuleNotFoundException("id3"))

====
